---------------------------- MODULE Spec2Model ----------------------------
(***************************************************************************)
(* A model of the diff viewer: the adaptive diff engine                    *)
(* (OptimizedDiffComputer, src/src/lib/utils/optimizedDiff.ts), the        *)
(* renderer renderDiffToHtml of the same file, the DiffViewer component    *)
(* that drives both (src/unnamed/part_002), and the handlers that store    *)
(* and retrieve diffs (src/unnamed/part_004, src/src/routes).              *)
(*                                                                         *)
(* Texts are sequences of one-character strings.  An edit operation is a   *)
(* record [op, text] for the library's pair [op, text]; an edit sequence   *)
(* is a sequence of them.  Times are whole milliseconds.                   *)
(*                                                                         *)
(* The engine calls the diff-match-patch library (diff_main,               *)
(* diff_cleanupSemantic).  The library is modelled by what it computes,    *)
(* step for step where the result depends on the steps; each definition    *)
(* names the call site it stands for.                                      *)
(***************************************************************************)
EXTENDS Integers, Sequences, FiniteSets, TLC

VARIABLES
    Diff_Timeout,     \* engine: this.dmp.Diff_Timeout, in milliseconds
    pc,               \* engine: "idle" | "returned"
    args,             \* engine: the arguments of the last computeDiff call
    result,           \* engine: the DiffResult it returned
    brokeOff,         \* engine: whether the library broke off at its deadline
    rdiffs,           \* render: the edit sequence given to renderDiffToHtml
    ropts,            \* render: its options record
    rendered,         \* render: the RenderedDiff it returned
    mounted,          \* viewer: "unmounted", "mounted", or "failed" when onMount threw
    leftText,         \* viewer: $state leftText
    rightText,        \* viewer: $state rightText
    diffResult,       \* viewer: $state diffResult
    isComputing,      \* viewer: $state isComputing
    currentDiffIndex, \* viewer: $state currentDiffIndex
    showPerfMetrics,  \* viewer: $state showPerfMetrics
    showSizeWarning,  \* viewer: $state showSizeWarning
    pending,          \* viewer: computeDiff calls suspended at their await
    viewerDT,         \* viewer: diffComputer.dmp.Diff_Timeout, in milliseconds
    now,              \* store: the servers' clock (new Date()), in days
    diffDocuments,    \* store: the table diff_documents, by short_id
    drawnIds,         \* store: the short ids that nanoid(10) has returned
    lastReply,        \* store: the answer to the last create or cleanup request
    requests,         \* store: the GET requests, each with its position
    odiffs,           \* engine: the edit sequence given to optimizeDiffs
    optimized,        \* engine: the edit sequence that optimizeDiffs returned
    changeIndices     \* engine: the array that getChangeIndices returned

engineVars == <<Diff_Timeout, pc, args, result, brokeOff>>
renderVars == <<rdiffs, ropts, rendered>>
viewerVars == <<mounted, leftText, rightText, diffResult, isComputing, currentDiffIndex,
                showPerfMetrics, showSizeWarning, pending, viewerDT>>
storeVars == <<now, diffDocuments, drawnIds, lastReply, requests>>
utilVars == <<odiffs, optimized, changeIndices>>
vars == <<engineVars, renderVars, viewerVars, storeVars, utilVars>>

-----------------------------------------------------------------------------
(* Bounds of the model. *)

\* Longest text drawn as an input of computeDiff.
MaxLen == 3
MaxTimedLen == 2
\* Most bisections the library completes before its deadline passes, when
\* the deadline passes at all.
MaxFuel == 1
\* Longest edit sequence drawn as an input of renderDiffToHtml.
MaxOps == 4
\* Largest maxChunks drawn as an option of renderDiffToHtml.
MaxChunksBound == 3
\* Longest span text drawn from the characters that escaping is about.
MaxEscapeLen == 3
\* Last day of the servers' clock.
MaxNow == 2
\* Number of GET requests made of the stored diffs.
MaxRequests == 2

-----------------------------------------------------------------------------
(* Program constants. *)

DIFF_DELETE == -1
DIFF_INSERT == 1
DIFF_EQUAL == 0
SIZE_THRESHOLD_ACCURATE == 1700
CHAR_THRESHOLD_ACCURATE == 500
DEFAULT_TIMEOUT == 5000
\* diff_match_patch's constructor sets Diff_Timeout = 1.0 (seconds).
LIBRARY_DEFAULT_TIMEOUT == 1000
\* renderDiffToHtml: options.maxChunks ?? 5000
DEFAULT_MAX_CHUNKS == 5000
\* diff_compute_ takes the line-mode speedup only for texts longer than this.
LINEMODE_MIN_LENGTH == 100

NL == "\n"

-----------------------------------------------------------------------------
(* Strings. *)

Min(a, b) == IF a < b THEN a ELSE b
Max(a, b) == IF a > b THEN a ELSE b

\* JavaScript's substring clamps its indices to 0..s.length.
Clamp(s, n) == IF n < 0 THEN 0 ELSE IF n > Len(s) THEN Len(s) ELSE n
\* s.substring(0, n) and s.substring(n)
Take(s, n) == SubSeq(s, 1, Clamp(s, n))
Drop(s, n) == SubSeq(s, Clamp(s, n) + 1, Len(s))
\* s.substring(s.length - n) and s.substring(0, s.length - n)
TakeLast(s, n) == Drop(s, Len(s) - n)
DropLast(s, n) == Take(s, Len(s) - n)

\* The number of characters common to the start of both texts.
diff_commonPrefix(a, b) ==
    LET m == Min(Len(a), Len(b))
    IN  CHOOSE n \in 0..m :
            /\ n = m \/ a[n + 1] # b[n + 1]
            /\ \A i \in 1..n : a[i] = b[i]

\* The number of characters common to the end of both texts.
diff_commonSuffix(a, b) ==
    LET m == Min(Len(a), Len(b))
    IN  CHOOSE n \in 0..m :
            /\ n = m \/ a[Len(a) - n] # b[Len(b) - n]
            /\ \A i \in 0..(n - 1) : a[Len(a) - i] = b[Len(b) - i]

\* The length of the longest suffix of a that is a prefix of b.
diff_commonOverlap_(a, b) ==
    LET m == Min(Len(a), Len(b))
        S == {n \in 0..m : TakeLast(a, n) = Take(b, n)}
    IN  CHOOSE n \in S : \A k \in S : k <= n

\* hay.indexOf(needle, from): the first position >= from, counted from 0, or -1.
indexOfFrom(hay, needle, from) ==
    LET at(i) == SubSeq(hay, i + 1, i + Len(needle)) = needle
        P == from..(Len(hay) - Len(needle))
    IN  IF \E i \in P : at(i)
        THEN CHOOSE i \in P : at(i) /\ \A j \in from..(i - 1) : ~at(j)
        ELSE -1

indexOf(hay, needle) == indexOfFrom(hay, needle, 0)

includes(s, c) == \E i \in 1..Len(s) : s[i] = c

Op(o, t) == [op |-> o, text |-> t]

RECURSIVE Flatten(_)
\* The concatenation of a sequence of texts.
Flatten(ss) == IF ss = <<>> THEN <<>> ELSE Head(ss) \o Flatten(Tail(ss))

\* arr.splice(start, deleteCount, ...items), start counted from 0.
Splice(arr, start, deleteCount, items) ==
    SubSeq(arr, 1, start) \o items \o SubSeq(arr, start + deleteCount + 1, Len(arr))

-----------------------------------------------------------------------------
(* Method calls.  The methods of the diff_match_patch instance and of the  *)
(* computer call one another through this (this.diff_main(...), ...): Lib  *)
(* takes the method's name and its argument list and runs its body, which  *)
(* is the definition named <method>Body further down.                      *)

\* No merging at all.
withoutCleanupMerge(diffs) == diffs

RECURSIVE Lib(_, _)

diff_main(text1, text2, checklines, env) ==
    Lib("diff_main", <<text1, text2, checklines, env>>)
diff_compute_(text1, text2, checklines, env) ==
    Lib("diff_compute_", <<text1, text2, checklines, env>>)
diff_bisect_(text1, text2, env) ==
    Lib("diff_bisect_", <<text1, text2, env>>)
diff_bisectSplit_(text1, text2, x, y, env) ==
    Lib("diff_bisectSplit_", <<text1, text2, x, y, env>>)
diff_lineMode_(text1, text2, env) ==
    Lib("diff_lineMode_", <<text1, text2, env>>)
diff_halfMatch_(text1, text2, timeout) ==
    Lib("diff_halfMatch_", <<text1, text2, timeout>>)
diff_cleanupMerge(diffs) ==
    Lib("diff_cleanupMerge", <<diffs>>)
diff_cleanupSemantic(diffs) ==
    Lib("diff_cleanupSemantic", <<diffs>>)
diff_cleanupSemanticLossless(diffs) ==
    Lib("diff_cleanupSemanticLossless", <<diffs>>)
diff_linesToChars_(text) ==
    Lib("diff_linesToChars_", <<text>>)
diff_charsToLines_(diffs) ==
    Lib("diff_charsToLines_", <<diffs>>)
bisectMiddle(text1, text2) ==
    Lib("bisectMiddle", <<text1, text2>>)
differentResult(text1, text2, options, dt, computationTime, fuel) ==
    Lib("differentResult", <<text1, text2, options, dt, computationTime, fuel>>)

-----------------------------------------------------------------------------
(* diff-match-patch: diff_cleanupMerge.  The engine reaches it through     *)
(* every diff_main and through diff_cleanupSemantic.                       *)

\* One iteration of the first loop of diff_cleanupMerge.  st holds the loop's
\* variables; pointer counts from 0 as in the library.
cleanupMergeStep(st) ==
    LET diffs == st.diffs
        pointer == st.pointer
        cur == diffs[pointer + 1]
        cd == st.count_delete
        ci == st.count_insert
    IN
    IF cur.op = DIFF_INSERT THEN
        [st EXCEPT !.count_insert = ci + 1, !.text_insert = @ \o cur.text,
                   !.pointer = pointer + 1]
    ELSE IF cur.op = DIFF_DELETE THEN
        [st EXCEPT !.count_delete = cd + 1, !.text_delete = @ \o cur.text,
                   !.pointer = pointer + 1]
    ELSE IF cd + ci > 1 THEN
        LET both == cd # 0 /\ ci # 0
            start == pointer - cd - ci
            \* Factor out any common prefix.
            pre == IF both THEN diff_commonPrefix(st.text_insert, st.text_delete) ELSE 0
            prevEq == start > 0 /\ diffs[start].op = DIFF_EQUAL
            d1 == IF pre = 0 THEN diffs
                  ELSE IF prevEq
                       THEN [diffs EXCEPT ![start].text = @ \o Take(st.text_insert, pre)]
                       ELSE <<Op(DIFF_EQUAL, Take(st.text_insert, pre))>> \o diffs
            p1 == IF pre # 0 /\ ~prevEq THEN pointer + 1 ELSE pointer
            ti1 == Drop(st.text_insert, pre)
            td1 == Drop(st.text_delete, pre)
            \* Factor out any common suffix.
            suf == IF both THEN diff_commonSuffix(ti1, td1) ELSE 0
            d2 == IF suf = 0 THEN d1
                  ELSE [d1 EXCEPT ![p1 + 1].text = TakeLast(ti1, suf) \o @]
            ti2 == DropLast(ti1, suf)
            td2 == DropLast(td1, suf)
            \* Delete the offending records and add the merged ones.
            p2 == p1 - cd - ci
            merged == (IF Len(td2) > 0 THEN <<Op(DIFF_DELETE, td2)>> ELSE <<>>)
                      \o (IF Len(ti2) > 0 THEN <<Op(DIFF_INSERT, ti2)>> ELSE <<>>)
        IN  [diffs |-> Splice(d2, p2, cd + ci, merged),
             pointer |-> p2 + Len(merged) + 1,
             count_delete |-> 0, count_insert |-> 0,
             text_delete |-> <<>>, text_insert |-> <<>>]
    ELSE IF pointer # 0 /\ diffs[pointer].op = DIFF_EQUAL THEN
        \* Merge this equality with the previous one.
        [diffs |-> Splice([diffs EXCEPT ![pointer].text = @ \o cur.text], pointer, 1, <<>>),
         pointer |-> pointer,
         count_delete |-> 0, count_insert |-> 0,
         text_delete |-> <<>>, text_insert |-> <<>>]
    ELSE
        [diffs |-> diffs, pointer |-> pointer + 1,
         count_delete |-> 0, count_insert |-> 0,
         text_delete |-> <<>>, text_insert |-> <<>>]

RECURSIVE cleanupMergeLoop(_)
cleanupMergeLoop(st) ==
    IF st.pointer < Len(st.diffs) THEN cleanupMergeLoop(cleanupMergeStep(st)) ELSE st.diffs

\* One iteration of the second loop of diff_cleanupMerge: a single edit
\* between two equalities is shifted sideways to eliminate an equality.
cleanupMergeShiftStep(st) ==
    LET diffs == st.diffs
        pointer == st.pointer
        prev == diffs[pointer]
        cur == diffs[pointer + 1]
        next == diffs[pointer + 2]
    IN
    IF prev.op = DIFF_EQUAL /\ next.op = DIFF_EQUAL THEN
        IF Len(cur.text) >= Len(prev.text) /\ TakeLast(cur.text, Len(prev.text)) = prev.text
        THEN \* Shift the edit over the previous equality.
            LET d1 == [diffs EXCEPT
                         ![pointer + 1].text = prev.text \o DropLast(cur.text, Len(prev.text)),
                         ![pointer + 2].text = prev.text \o next.text]
            IN  [diffs |-> Splice(d1, pointer - 1, 1, <<>>),
                 pointer |-> pointer + 1, changes |-> TRUE]
        ELSE IF Len(cur.text) >= Len(next.text) /\ Take(cur.text, Len(next.text)) = next.text
        THEN \* Shift the edit over the next equality.
            LET d1 == [diffs EXCEPT
                         ![pointer].text = prev.text \o next.text,
                         ![pointer + 1].text = Drop(cur.text, Len(next.text)) \o next.text]
            IN  [diffs |-> Splice(d1, pointer + 1, 1, <<>>),
                 pointer |-> pointer + 1, changes |-> TRUE]
        ELSE [st EXCEPT !.pointer = pointer + 1]
    ELSE [st EXCEPT !.pointer = pointer + 1]

RECURSIVE cleanupMergeShiftLoop(_)
cleanupMergeShiftLoop(st) ==
    IF st.pointer < Len(st.diffs) - 1 THEN cleanupMergeShiftLoop(cleanupMergeShiftStep(st))
    ELSE st

\* Reorder and merge like edit sections; merge equalities.
diff_cleanupMergeBody(diffs) ==
    LET first == cleanupMergeLoop(
                     [diffs |-> Append(diffs, Op(DIFF_EQUAL, <<>>)), pointer |-> 0,
                      count_delete |-> 0, count_insert |-> 0,
                      text_delete |-> <<>>, text_insert |-> <<>>])
        \* Remove the dummy entry at the end.
        popped == IF Len(first[Len(first)].text) = 0 THEN DropLast(first, 1) ELSE first
        second == cleanupMergeShiftLoop([diffs |-> popped, pointer |-> 1, changes |-> FALSE])
    IN  IF second.changes THEN diff_cleanupMerge(second.diffs) ELSE second.diffs

-----------------------------------------------------------------------------
(* diff-match-patch: diff_main and what it calls.                          *)
(*                                                                         *)
(* env is what a diff_main call inherits: env.timeout is the instance's    *)
(* Diff_Timeout (ms) when the outermost diff_main was entered, and         *)
(* env.fuel is the number of diff_bisect_ loops that still complete before *)
(* the deadline passes (-1: the deadline never passes during the call).    *)
(* The library polls the clock at the top of every bisect iteration, so a  *)
(* passed deadline ends the running bisect and every later one at once,    *)
(* each with the result [Delete text1, Insert text2].  A diff function     *)
(* returns [diffs, fuel, aborted].                                         *)

Ret(diffs, fuel, aborted) == [fuel |-> fuel, aborted |-> aborted, diffs |-> diffs]

\* s.charAt(i): the empty string outside the text.
charAt(s, i) == IF 0 <= i /\ i < Len(s) THEN s[i + 1] ELSE ""

RECURSIVE snakeFront(_, _, _, _)
\* while (x1 < text1_length && y1 < text2_length &&
\*        text1.charAt(x1) == text2.charAt(y1)) { x1++; y1++; }
snakeFront(text1, text2, x1, y1) ==
    IF x1 < Len(text1) /\ y1 < Len(text2) /\ charAt(text1, x1) = charAt(text2, y1)
    THEN snakeFront(text1, text2, x1 + 1, y1 + 1) ELSE x1

RECURSIVE snakeReverse(_, _, _, _)
snakeReverse(text1, text2, x2, y2) ==
    IF x2 < Len(text1) /\ y2 < Len(text2)
       /\ charAt(text1, Len(text1) - x2 - 1) = charAt(text2, Len(text2) - y2 - 1)
    THEN snakeReverse(text1, text2, x2 + 1, y2 + 1) ELSE x2

RECURSIVE bisectFrontLoop(_, _, _)
\* The loop over k1 of one bisect iteration d: walk the front path one step.
\* Returns the updated loop variables, and the overlap point when one is found.
bisectFrontLoop(g, st, k1) ==
    IF k1 > st.d - st.k1end THEN [hit |-> FALSE, st |-> st]
    ELSE
    LET k1_offset == g.v_offset + k1
        x1s == IF k1 = -st.d \/ (k1 # st.d /\ st.v1[k1_offset - 1] < st.v1[k1_offset + 1])
               THEN st.v1[k1_offset + 1] ELSE st.v1[k1_offset - 1] + 1
        x1 == snakeFront(g.text1, g.text2, x1s, x1s - k1)
        y1 == x1 - k1
        st1 == [st EXCEPT !.v1[k1_offset] = x1]
        k2_offset == g.v_offset + g.delta - k1
    IN  IF x1 > Len(g.text1) THEN
            bisectFrontLoop(g, [st1 EXCEPT !.k1end = @ + 2], k1 + 2)
        ELSE IF y1 > Len(g.text2) THEN
            bisectFrontLoop(g, [st1 EXCEPT !.k1start = @ + 2], k1 + 2)
        ELSE IF g.front /\ k2_offset >= 0 /\ k2_offset < g.v_length
                /\ st1.v2[k2_offset] # -1
                /\ x1 >= Len(g.text1) - st1.v2[k2_offset]
        THEN [hit |-> TRUE, x |-> x1, y |-> y1]
        ELSE bisectFrontLoop(g, st1, k1 + 2)

RECURSIVE bisectReverseLoop(_, _, _)
\* The loop over k2: walk the reverse path one step.
bisectReverseLoop(g, st, k2) ==
    IF k2 > st.d - st.k2end THEN [hit |-> FALSE, st |-> st]
    ELSE
    LET k2_offset == g.v_offset + k2
        x2s == IF k2 = -st.d \/ (k2 # st.d /\ st.v2[k2_offset - 1] < st.v2[k2_offset + 1])
               THEN st.v2[k2_offset + 1] ELSE st.v2[k2_offset - 1] + 1
        x2 == snakeReverse(g.text1, g.text2, x2s, x2s - k2)
        y2 == x2 - k2
        st1 == [st EXCEPT !.v2[k2_offset] = x2]
        k1_offset == g.v_offset + g.delta - k2
    IN  IF x2 > Len(g.text1) THEN
            bisectReverseLoop(g, [st1 EXCEPT !.k2end = @ + 2], k2 + 2)
        ELSE IF y2 > Len(g.text2) THEN
            bisectReverseLoop(g, [st1 EXCEPT !.k2start = @ + 2], k2 + 2)
        ELSE IF ~g.front /\ k1_offset >= 0 /\ k1_offset < g.v_length
                /\ st1.v1[k1_offset] # -1
                \* Mirror x2 onto the top-left coordinate system.
                /\ st1.v1[k1_offset] >= Len(g.text1) - x2
        THEN [hit |-> TRUE, x |-> st1.v1[k1_offset],
              y |-> g.v_offset + st1.v1[k1_offset] - k1_offset]
        ELSE bisectReverseLoop(g, st1, k2 + 2)

RECURSIVE bisectLoop(_, _)
\* for (d = 0; d < max_d; d++): the overlap point, or hit = FALSE when the
\* two texts have no commonality at all.
bisectLoop(g, st) ==
    IF st.d >= g.max_d THEN [hit |-> FALSE]
    ELSE
    LET f == bisectFrontLoop(g, st, -st.d + st.k1start)
    IN  IF f.hit THEN f
        ELSE LET r == bisectReverseLoop(g, f.st, -st.d + f.st.k2start)
             IN  IF r.hit THEN r
                 ELSE bisectLoop(g, [r.st EXCEPT !.d = @ + 1])

\* The middle snake of diff_bisect_ for two texts, when the deadline does not
\* pass.
bisectMiddleBody(text1, text2) ==
    LET max_d == (Len(text1) + Len(text2) + 1) \div 2
        delta == Len(text1) - Len(text2)
        g == [text1 |-> text1, text2 |-> text2, max_d |-> max_d,
              v_offset |-> max_d, v_length |-> 2 * max_d, delta |-> delta,
              \* If the total number of characters is odd, the front path
              \* collides with the reverse path.
              front |-> (delta % 2 # 0)]
        v0 == [x \in 0..(2 * max_d + 1) |-> IF x = max_d + 1 THEN 0 ELSE -1]
    IN  bisectLoop(g, [d |-> 0, v1 |-> v0, v2 |-> v0,
                       k1start |-> 0, k1end |-> 0, k2start |-> 0, k2end |-> 0])

RECURSIVE halfMatchScan(_, _, _, _, _, _)
\* The while loop of diff_halfMatchI_: every occurrence j of the seed in
\* shorttext, keeping the longest common substring around it.
halfMatchScan(longtext, shorttext, i, seed, j, best) ==
    IF j = -1 THEN best
    ELSE
    LET prefixLength == diff_commonPrefix(Drop(longtext, i), Drop(shorttext, j))
        suffixLength == diff_commonSuffix(Take(longtext, i), Take(shorttext, j))
        better == Len(best.common) < suffixLength + prefixLength
        b1 == IF better
              THEN [common |-> SubSeq(shorttext, j - suffixLength + 1, j + prefixLength),
                    long_a |-> Take(longtext, i - suffixLength),
                    long_b |-> Drop(longtext, i + prefixLength),
                    short_a |-> Take(shorttext, j - suffixLength),
                    short_b |-> Drop(shorttext, j + prefixLength)]
              ELSE best
    IN  halfMatchScan(longtext, shorttext, i, seed,
                      indexOfFrom(shorttext, seed, j + 1), b1)

NoHalfMatch == [found |-> FALSE]

\* Does a substring of shorttext exist within longtext such that the substring
\* is at least half the length of longtext?  The seed is the quarter of
\* longtext that starts at i.
diff_halfMatchI_(longtext, shorttext, i) ==
    LET seed == SubSeq(longtext, i + 1, Min(i + Len(longtext) \div 4, Len(longtext)))
        none == [common |-> <<>>, long_a |-> <<>>, long_b |-> <<>>,
                 short_a |-> <<>>, short_b |-> <<>>]
        best == halfMatchScan(longtext, shorttext, i, seed,
                              indexOfFrom(shorttext, seed, 0), none)
    IN  IF Len(best.common) * 2 >= Len(longtext)
        THEN [found |-> TRUE, hm |-> best] ELSE NoHalfMatch

\* diff_halfMatch_: null when the instance's Diff_Timeout is not positive
\* (unlimited time: do not risk a non-optimal diff).
diff_halfMatch_Body(text1, text2, timeout) ==
    LET swap == ~(Len(text1) > Len(text2))
        longtext == IF swap THEN text2 ELSE text1
        shorttext == IF swap THEN text1 ELSE text2
    IN
    IF timeout <= 0 THEN NoHalfMatch
    ELSE IF Len(longtext) < 4 \/ Len(shorttext) * 2 < Len(longtext) THEN NoHalfMatch
    ELSE
    LET \* First check if the second quarter is the seed for a half-match.
        hm1 == diff_halfMatchI_(longtext, shorttext, (Len(longtext) + 3) \div 4)
        \* Check again based on the third quarter.
        hm2 == diff_halfMatchI_(longtext, shorttext, (Len(longtext) + 1) \div 2)
        hm == IF ~hm2.found THEN hm1
              ELSE IF ~hm1.found THEN hm2
              ELSE IF Len(hm1.hm.common) > Len(hm2.hm.common) THEN hm1 ELSE hm2
    IN  IF ~hm1.found /\ ~hm2.found THEN NoHalfMatch
        ELSE [found |-> TRUE,
              text1_a |-> IF swap THEN hm.hm.short_a ELSE hm.hm.long_a,
              text1_b |-> IF swap THEN hm.hm.short_b ELSE hm.hm.long_b,
              text2_a |-> IF swap THEN hm.hm.long_a ELSE hm.hm.short_a,
              text2_b |-> IF swap THEN hm.hm.long_b ELSE hm.hm.short_b,
              mid_common |-> hm.hm.common]

RECURSIVE linesOf(_, _)
\* The lines of a text, each with its line break; a last line without one is
\* kept as it is (diff_linesToCharsMunge_).  lineStart counts from 0.
linesOf(text, lineStart) ==
    IF lineStart >= Len(text) THEN <<>>
    ELSE LET nl == indexOfFrom(text, <<NL>>, lineStart)
             lineEnd == IF nl = -1 THEN Len(text) - 1 ELSE nl
         IN  <<SubSeq(text, lineStart + 1, lineEnd + 1)>> \o linesOf(text, lineEnd + 1)

\* diff_linesToChars_: each text as the sequence of its lines.  The library
\* encodes every distinct line as one character, equal lines as equal
\* characters; here a line stands for its own character.  (The library stops
\* numbering at 40000 and 65535 distinct lines.)
diff_linesToChars_Body(text) == linesOf(text, 0)

\* diff_charsToLines_: every operation's characters back to the lines' text.
diff_charsToLines_Body(diffs) ==
    [i \in 1..Len(diffs) |-> Op(diffs[i].op, Flatten(diffs[i].text))]

-----------------------------------------------------------------------------
(* diff-match-patch: diff_cleanupSemantic (optimizedDiff.ts line 98, and   *)
(* inside the library's line mode).                                        *)

AlphaNumerics ==
    {"a", "b", "c", "d", "e", "f", "g", "h", "i", "j", "k", "l", "m", "n", "o", "p",
     "q", "r", "s", "t", "u", "v", "w", "x", "y", "z", "A", "B", "C", "D", "E", "F",
     "G", "H", "I", "J", "K", "L", "M", "N", "O", "P", "Q", "R", "S", "T", "U", "V",
     "W", "X", "Y", "Z", "0", "1", "2", "3", "4", "5", "6", "7", "8", "9"}
\* /[^a-zA-Z0-9]/, /\s/ and /[\r\n]/ on one character
nonAlphaNumeric(c) == c \notin AlphaNumerics
whitespace(c) == c \in {" ", "\t", "\n", "\r", "\f"}
linebreak(c) == c \in {"\n", "\r"}
\* /\n\r?\n$/ and /^\r?\n\r?\n/
blanklineEnd(s) ==
    \/ Len(s) >= 2 /\ TakeLast(s, 2) = <<"\n", "\n">>
    \/ Len(s) >= 3 /\ TakeLast(s, 3) = <<"\n", "\r", "\n">>
blanklineStart(s) ==
    \E p \in {<<"\n", "\n">>, <<"\r", "\n", "\n">>, <<"\n", "\r", "\n">>,
              <<"\r", "\n", "\r", "\n">>} :
        Len(s) >= Len(p) /\ Take(s, Len(p)) = p

\* How well the boundary between two texts falls on a logical boundary:
\* 6 (best) to 0 (worst).
diff_cleanupSemanticScore_(one, two) ==
    IF Len(one) = 0 \/ Len(two) = 0 THEN 6
    ELSE
    LET char1 == one[Len(one)]
        char2 == two[1]
        nonAlphaNumeric1 == nonAlphaNumeric(char1)
        nonAlphaNumeric2 == nonAlphaNumeric(char2)
        whitespace1 == nonAlphaNumeric1 /\ whitespace(char1)
        whitespace2 == nonAlphaNumeric2 /\ whitespace(char2)
        lineBreak1 == whitespace1 /\ linebreak(char1)
        lineBreak2 == whitespace2 /\ linebreak(char2)
        blankLine1 == lineBreak1 /\ blanklineEnd(one)
        blankLine2 == lineBreak2 /\ blanklineStart(two)
    IN  IF blankLine1 \/ blankLine2 THEN 5
        ELSE IF lineBreak1 \/ lineBreak2 THEN 4
        ELSE IF nonAlphaNumeric1 /\ ~whitespace1 /\ whitespace2 THEN 3
        ELSE IF whitespace1 \/ whitespace2 THEN 2
        ELSE IF nonAlphaNumeric1 \/ nonAlphaNumeric2 THEN 1
        ELSE 0

RECURSIVE losslessSlide(_)
\* Step character by character right, looking for the best fit.
losslessSlide(b) ==
    IF Len(b.equality2) > 0 /\ b.edit[1] = b.equality2[1] THEN
        LET equality1 == Append(b.equality1, b.edit[1])
            edit == Append(Tail(b.edit), b.equality2[1])
            equality2 == Tail(b.equality2)
            score == diff_cleanupSemanticScore_(equality1, edit)
                     + diff_cleanupSemanticScore_(edit, equality2)
            moved == [b EXCEPT !.equality1 = equality1, !.edit = edit,
                               !.equality2 = equality2]
        IN  \* The >= encourages trailing rather than leading whitespace on edits.
            losslessSlide(IF score >= b.bestScore
                          THEN [moved EXCEPT !.bestScore = score,
                                             !.bestEquality1 = equality1,
                                             !.bestEdit = edit,
                                             !.bestEquality2 = equality2]
                          ELSE moved)
    ELSE b

\* One iteration of the loop of diff_cleanupSemanticLossless.
losslessStep(st) ==
    LET diffs == st.diffs
        pointer == st.pointer
    IN
    IF diffs[pointer].op = DIFF_EQUAL /\ diffs[pointer + 2].op = DIFF_EQUAL THEN
        \* This is a single edit surrounded by equalities.
        LET e1 == diffs[pointer].text
            ed == diffs[pointer + 1].text
            e2 == diffs[pointer + 2].text
            \* First, shift the edit as far left as possible.
            commonOffset == diff_commonSuffix(e1, ed)
            equality1 == DropLast(e1, commonOffset)
            edit == TakeLast(ed, commonOffset) \o DropLast(ed, commonOffset)
            equality2 == TakeLast(ed, commonOffset) \o e2
            b == losslessSlide(
                   [equality1 |-> equality1, edit |-> edit, equality2 |-> equality2,
                    bestEquality1 |-> equality1, bestEdit |-> edit,
                    bestEquality2 |-> equality2,
                    bestScore |-> diff_cleanupSemanticScore_(equality1, edit)
                                  + diff_cleanupSemanticScore_(edit, equality2)])
        IN  IF e1 # b.bestEquality1 THEN
                \* We have an improvement, save it back to the diff.
                LET has1 == Len(b.bestEquality1) > 0
                    has2 == Len(b.bestEquality2) > 0
                    d1 == IF has1 THEN [diffs EXCEPT ![pointer].text = b.bestEquality1]
                          ELSE Splice(diffs, pointer - 1, 1, <<>>)
                    p1 == IF has1 THEN pointer ELSE pointer - 1
                    d2 == [d1 EXCEPT ![p1 + 1].text = b.bestEdit]
                    d3 == IF has2 THEN [d2 EXCEPT ![p1 + 2].text = b.bestEquality2]
                          ELSE Splice(d2, p1 + 1, 1, <<>>)
                    p3 == IF has2 THEN p1 ELSE p1 - 1
                IN  [diffs |-> d3, pointer |-> p3 + 1]
            ELSE [st EXCEPT !.pointer = pointer + 1]
    ELSE [st EXCEPT !.pointer = pointer + 1]

RECURSIVE losslessLoop(_)
losslessLoop(st) ==
    IF st.pointer < Len(st.diffs) - 1 THEN losslessLoop(losslessStep(st)) ELSE st.diffs

\* Look for single edits surrounded on both sides by equalities which can be
\* shifted sideways to align the edit to a word boundary.
diff_cleanupSemanticLosslessBody(diffs) == losslessLoop([diffs |-> diffs, pointer |-> 1])

\* One iteration of the first loop of diff_cleanupSemantic.  equalities is
\* the library's stack of indices; its length can go below zero, and the
\* library then keeps indexing the array with negative keys.  lastEquality
\* is the empty text where the library holds null (both are falsy).
semanticStep(st) ==
    LET diffs == st.diffs
        pointer == st.pointer
        cur == diffs[pointer + 1]
    IN
    IF cur.op = DIFF_EQUAL THEN
        [st EXCEPT !.equalities = (st.equalitiesLength :> pointer) @@ @,
                   !.equalitiesLength = @ + 1,
                   !.length_insertions1 = st.length_insertions2,
                   !.length_deletions1 = st.length_deletions2,
                   !.length_insertions2 = 0,
                   !.length_deletions2 = 0,
                   !.lastEquality = cur.text,
                   !.pointer = pointer + 1]
    ELSE
    LET li2 == IF cur.op = DIFF_INSERT THEN st.length_insertions2 + Len(cur.text)
               ELSE st.length_insertions2
        ld2 == IF cur.op = DIFF_INSERT THEN st.length_deletions2
               ELSE st.length_deletions2 + Len(cur.text)
    IN  \* Eliminate an equality that is smaller or equal to the edits on both
        \* sides of it.
        IF Len(st.lastEquality) > 0
           /\ Len(st.lastEquality) <= Max(st.length_insertions1, st.length_deletions1)
           /\ Len(st.lastEquality) <= Max(li2, ld2)
        THEN
            LET at == st.equalities[st.equalitiesLength - 1]
                \* Duplicate record, and change the second copy to insert.
                d1 == Splice(diffs, at, 0, <<Op(DIFF_DELETE, st.lastEquality)>>)
                d2 == [d1 EXCEPT ![at + 2].op = DIFF_INSERT]
                \* Throw away the equality just deleted and the previous one.
                n == st.equalitiesLength - 2
            IN  [diffs |-> d2, changes |-> TRUE,
                 equalities |-> st.equalities, equalitiesLength |-> n,
                 lastEquality |-> <<>>,
                 pointer |-> (IF n > 0 THEN st.equalities[n - 1] ELSE -1) + 1,
                 length_insertions1 |-> 0, length_deletions1 |-> 0,
                 length_insertions2 |-> 0, length_deletions2 |-> 0]
        ELSE [st EXCEPT !.length_insertions2 = li2, !.length_deletions2 = ld2,
                        !.pointer = pointer + 1]

RECURSIVE semanticLoop(_)
semanticLoop(st) ==
    IF st.pointer < Len(st.diffs) THEN semanticLoop(semanticStep(st)) ELSE st

\* One iteration of the last loop of diff_cleanupSemantic: an overlap between
\* a deletion and the insertion after it becomes an equality.
overlapStep(st) ==
    LET diffs == st.diffs
        pointer == st.pointer
    IN
    IF diffs[pointer].op = DIFF_DELETE /\ diffs[pointer + 1].op = DIFF_INSERT THEN
        LET deletion == diffs[pointer].text
            insertion == diffs[pointer + 1].text
            overlap_length1 == diff_commonOverlap_(deletion, insertion)
            overlap_length2 == diff_commonOverlap_(insertion, deletion)
        IN  IF overlap_length1 >= overlap_length2 THEN
                IF 2 * overlap_length1 >= Len(deletion)
                   \/ 2 * overlap_length1 >= Len(insertion)
                THEN \* Overlap found: insert an equality and trim the edits.
                    [diffs |-> Splice(diffs, pointer - 1, 2,
                                 <<Op(DIFF_DELETE, DropLast(deletion, overlap_length1)),
                                   Op(DIFF_EQUAL, Take(insertion, overlap_length1)),
                                   Op(DIFF_INSERT, Drop(insertion, overlap_length1))>>),
                     pointer |-> pointer + 3]
                ELSE [st EXCEPT !.pointer = pointer + 2]
            ELSE
                IF 2 * overlap_length2 >= Len(deletion)
                   \/ 2 * overlap_length2 >= Len(insertion)
                THEN \* Reverse overlap found: insert an equality, swap and trim.
                    [diffs |-> Splice(diffs, pointer - 1, 2,
                                 <<Op(DIFF_INSERT, DropLast(insertion, overlap_length2)),
                                   Op(DIFF_EQUAL, Take(deletion, overlap_length2)),
                                   Op(DIFF_DELETE, Drop(deletion, overlap_length2))>>),
                     pointer |-> pointer + 3]
                ELSE [st EXCEPT !.pointer = pointer + 2]
    ELSE [st EXCEPT !.pointer = pointer + 1]

RECURSIVE overlapLoop(_)
overlapLoop(st) ==
    IF st.pointer < Len(st.diffs) THEN overlapLoop(overlapStep(st)) ELSE st.diffs

\* Reduce the number of edits by eliminating semantically trivial equalities.
diff_cleanupSemanticBody(diffs) ==
    LET first == semanticLoop(
                     [diffs |-> diffs, changes |-> FALSE,
                      equalities |-> <<>>, equalitiesLength |-> 0,
                      lastEquality |-> <<>>, pointer |-> 0,
                      length_insertions1 |-> 0, length_deletions1 |-> 0,
                      length_insertions2 |-> 0, length_deletions2 |-> 0])
        \* Normalize the diff.
        merged == IF first.changes THEN diff_cleanupMerge(first.diffs) ELSE first.diffs
        lossless == diff_cleanupSemanticLossless(merged)
    IN  overlapLoop([diffs |-> lossless, pointer |-> 1])

-----------------------------------------------------------------------------
(* diff-match-patch: diff_main, diff_compute_, diff_bisect_,               *)
(* diff_bisectSplit_ and diff_lineMode_.                                   *)

\* Given the location of the middle snake, split the diff in two parts and
\* recurse.
diff_bisectSplit_Body(text1, text2, x, y, env) ==
    LET a == diff_main(Take(text1, x), Take(text2, y), FALSE, env)
        b == diff_main(Drop(text1, x), Drop(text2, y), FALSE,
                       [env EXCEPT !.fuel = a.fuel])
    IN  Ret(a.diffs \o b.diffs, b.fuel, a.aborted \/ b.aborted)

\* Find the middle snake of a diff, split the problem in two and return the
\* recursively constructed diff.  With the deadline passed (no fuel left) the
\* loop breaks at its first poll.
diff_bisect_Body(text1, text2, env) ==
    LET giveUp == <<Op(DIFF_DELETE, text1), Op(DIFF_INSERT, text2)>>
    IN  IF env.fuel = 0 THEN Ret(giveUp, 0, TRUE)
        ELSE
        LET m == bisectMiddle(text1, text2)
            env1 == [env EXCEPT !.fuel = IF @ > 0 THEN @ - 1 ELSE @]
        IN  IF m.hit THEN diff_bisectSplit_(text1, text2, m.x, m.y, env1)
            ELSE Ret(giveUp, env1.fuel, FALSE)

\* One iteration of the rediff loop of diff_lineMode_: replacement blocks are
\* diffed again, this time character by character.
lineModeStep(st) ==
    LET diffs == st.diffs
        pointer == st.pointer
        cur == diffs[pointer + 1]
    IN
    IF cur.op = DIFF_INSERT THEN
        [st EXCEPT !.count_insert = @ + 1, !.text_insert = @ \o cur.text,
                   !.pointer = pointer + 1]
    ELSE IF cur.op = DIFF_DELETE THEN
        [st EXCEPT !.count_delete = @ + 1, !.text_delete = @ \o cur.text,
                   !.pointer = pointer + 1]
    ELSE
        LET redo == st.count_delete >= 1 /\ st.count_insert >= 1
            n == st.count_delete + st.count_insert
            sub == diff_main(st.text_delete, st.text_insert, FALSE, st.env)
        IN  [diffs |-> IF redo THEN Splice(diffs, pointer - n, n, sub.diffs) ELSE diffs,
             pointer |-> IF redo THEN pointer - n + Len(sub.diffs) + 1 ELSE pointer + 1,
             env |-> IF redo THEN [st.env EXCEPT !.fuel = sub.fuel] ELSE st.env,
             aborted |-> IF redo THEN st.aborted \/ sub.aborted ELSE st.aborted,
             count_delete |-> 0, count_insert |-> 0,
             text_delete |-> <<>>, text_insert |-> <<>>]

RECURSIVE lineModeLoop(_)
lineModeLoop(st) ==
    IF st.pointer < Len(st.diffs) THEN lineModeLoop(lineModeStep(st)) ELSE st

\* Do a quick line-level diff on both texts, then rediff the parts for
\* greater accuracy.
diff_lineMode_Body(text1, text2, env) ==
    LET byLine == diff_main(diff_linesToChars_(text1), diff_linesToChars_(text2),
                            FALSE, env)
        \* Eliminate freak matches (e.g. blank lines).
        cleaned == diff_cleanupSemantic(diff_charsToLines_(byLine.diffs))
        st == lineModeLoop(
                  [diffs |-> Append(cleaned, Op(DIFF_EQUAL, <<>>)), pointer |-> 0,
                   env |-> [env EXCEPT !.fuel = byLine.fuel],
                   aborted |-> byLine.aborted,
                   count_delete |-> 0, count_insert |-> 0,
                   text_delete |-> <<>>, text_insert |-> <<>>])
    IN  \* Remove the dummy entry at the end.
        Ret(DropLast(st.diffs, 1), st.env.fuel, st.aborted)

\* Find the differences between two texts that share no prefix or suffix.
diff_compute_Body(text1, text2, checklines, env) ==
    LET swap == ~(Len(text1) > Len(text2))
        longtext == IF swap THEN text2 ELSE text1
        shorttext == IF swap THEN text1 ELSE text2
        i == indexOf(longtext, shorttext)
        edit == IF Len(text1) > Len(text2) THEN DIFF_DELETE ELSE DIFF_INSERT
        hm == diff_halfMatch_(text1, text2, env.timeout)
    IN
    IF Len(text1) = 0 THEN \* Just add some text (speedup).
        Ret(<<Op(DIFF_INSERT, text2)>>, env.fuel, FALSE)
    ELSE IF Len(text2) = 0 THEN \* Just delete some text (speedup).
        Ret(<<Op(DIFF_DELETE, text1)>>, env.fuel, FALSE)
    ELSE IF i # -1 THEN \* Shorter text is inside the longer text (speedup).
        Ret(<<Op(edit, Take(longtext, i)), Op(DIFF_EQUAL, shorttext),
              Op(edit, Drop(longtext, i + Len(shorttext)))>>, env.fuel, FALSE)
    ELSE IF Len(shorttext) = 1 THEN
        \* Single character string: after the previous speedup, the character
        \* can't be an equality.
        Ret(<<Op(DIFF_DELETE, text1), Op(DIFF_INSERT, text2)>>, env.fuel, FALSE)
    ELSE IF hm.found THEN \* The problem can be split in two.
        LET a == diff_main(hm.text1_a, hm.text2_a, checklines, env)
            b == diff_main(hm.text1_b, hm.text2_b, checklines,
                           [env EXCEPT !.fuel = a.fuel])
        IN  Ret(a.diffs \o <<Op(DIFF_EQUAL, hm.mid_common)>> \o b.diffs,
                b.fuel, a.aborted \/ b.aborted)
    ELSE IF checklines /\ Len(text1) > LINEMODE_MIN_LENGTH
                       /\ Len(text2) > LINEMODE_MIN_LENGTH THEN
        diff_lineMode_(text1, text2, env)
    ELSE diff_bisect_(text1, text2, env)

\* Find the differences between two texts: trim the common prefix and
\* suffix, compute the diff on the middle block, restore them, merge.
diff_mainBody(text1, text2, checklines, env) ==
    IF text1 = text2 THEN
        Ret(IF Len(text1) > 0 THEN <<Op(DIFF_EQUAL, text1)>> ELSE <<>>, env.fuel, FALSE)
    ELSE
    LET pre == diff_commonPrefix(text1, text2)
        commonprefix == Take(text1, pre)
        t1 == Drop(text1, pre)
        t2 == Drop(text2, pre)
        suf == diff_commonSuffix(t1, t2)
        commonsuffix == TakeLast(t1, suf)
        mid == diff_compute_(DropLast(t1, suf), DropLast(t2, suf), checklines, env)
        diffs == (IF pre > 0 THEN <<Op(DIFF_EQUAL, commonprefix)>> ELSE <<>>)
                 \o mid.diffs
                 \o (IF suf > 0 THEN <<Op(DIFF_EQUAL, commonsuffix)>> ELSE <<>>)
    IN  Ret(diff_cleanupMerge(diffs), mid.fuel, mid.aborted)

\* this.dmp.diff_main(text1, text2[, true]) as the engine calls it: the
\* checklines argument defaults to true when it is left out, and the deadline
\* is taken from the instance's Diff_Timeout (none when it is not positive).
dmp_diff_main(text1, text2, timeout, fuel) ==
    diff_main(text1, text2, TRUE,
              [timeout |-> timeout, fuel |-> IF timeout <= 0 THEN -1 ELSE fuel])

-----------------------------------------------------------------------------
(* OptimizedDiffComputer (optimizedDiff.ts).                               *)

RECURSIVE splitFrom(_, _)
\* text.split('\n'): the pieces between line separators, at least one.
splitFrom(text, from) ==
    LET nl == indexOfFrom(text, <<NL>>, from)
    IN  IF nl = -1 THEN <<SubSeq(text, from + 1, Len(text))>>
        ELSE <<SubSeq(text, from + 1, nl)>> \o splitFrom(text, nl + 1)

split(text) == splitFrom(text, 0)

\* A join that leaves the separators out.
joinWithoutSeparator(lines) == Flatten(lines)

RECURSIVE join(_)
\* lines.join('\n')
join(lines) ==
    IF Len(lines) = 0 THEN <<>>
    ELSE IF Len(lines) = 1 THEN lines[1]
    ELSE lines[1] \o <<NL>> \o join(Tail(lines))

\* An options record holds the fields the caller set; a field left out is
\* undefined.
Has(options, field) == field \in DOMAIN options

\* computeLinesDiffAccurate: diff_main on the rejoined lines.  The hashes and
\* the deadline it is given are not used.
computeLinesDiffAccurate(lines1, lines2, timeout, fuel) ==
    dmp_diff_main(join(lines1), join(lines2), timeout, fuel)

\* computeLinesDiffFast: the same call with checklines passed as true.
computeLinesDiffFast(lines1, lines2, timeout, fuel) ==
    dmp_diff_main(join(lines1), join(lines2), timeout, fuel)

\* computeLineDiff.  The map from trimmed lines to hash numbers that it builds
\* is local and reaches no result.  The library runs under the Diff_Timeout
\* the instance holds: this path does not set it.
computeLineDiff(text1, text2, timeout, fuel) ==
    LET lines1 == split(text1)
        lines2 == split(text2)
        totalLines == Len(lines1) + Len(lines2)
    IN  IF totalLines < SIZE_THRESHOLD_ACCURATE
        THEN computeLinesDiffAccurate(lines1, lines2, timeout, fuel)
        ELSE computeLinesDiffFast(lines1, lines2, timeout, fuel)

RECURSIVE sumLen(_, _)
\* The summed text length of the operations whose tag is in ops.
sumLen(diffs, ops) ==
    IF Len(diffs) = 0 THEN 0
    ELSE (IF Head(diffs).op \in ops THEN Len(Head(diffs).text) ELSE 0)
         + sumLen(Tail(diffs), ops)

\* Statistics that count every operation as a change.
computeStatsCountingEquals(diffs) ==
    [totalSize |-> sumLen(diffs, {DIFF_DELETE, DIFF_INSERT, DIFF_EQUAL}),
     changeCount |-> Len(diffs),
     insertions |-> sumLen(diffs, {DIFF_INSERT}),
     deletions |-> sumLen(diffs, {DIFF_DELETE})]

\* computeStats
computeStats(diffs) ==
    [totalSize |-> sumLen(diffs, {DIFF_DELETE, DIFF_INSERT, DIFF_EQUAL}),
     changeCount |-> Cardinality({i \in 1..Len(diffs) : diffs[i].op # DIFF_EQUAL}),
     insertions |-> sumLen(diffs, {DIFF_INSERT}),
     deletions |-> sumLen(diffs, {DIFF_DELETE})]

\* A line mode that follows the option alone.
shouldUseLineModeByOptionAlone(text1, text2, options) ==
    ~(Has(options, "lineMode") /\ options.lineMode = FALSE)

\* const shouldUseLineMode = options.lineMode !== false &&
\*     (text1.includes('\n') || text2.includes('\n'))
shouldUseLineMode(text1, text2, options) ==
    ~(Has(options, "lineMode") /\ options.lineMode = FALSE)
    /\ (includes(text1, NL) \/ includes(text2, NL))

\* const timeout = options.maxComputationTimeMs ?? DEFAULT_TIMEOUT
timeoutOf(options) ==
    IF Has(options, "maxComputationTimeMs") THEN options.maxComputationTimeMs
    ELSE DEFAULT_TIMEOUT

\* A flag raised only once the whole budget is used up.
hitTimeoutOfWholeBudget(computationTime, timeout) == computationTime >= timeout

\* const hitTimeout = computationTime >= timeout * 0.95
hitTimeoutOf(computationTime, timeout) == 100 * computationTime >= 95 * timeout

\* A tag whose threshold takes the boundary value as small.
algorithmOfInclusive(text1, text2, options) ==
    IF shouldUseLineMode(text1, text2, options) THEN "line-based"
    ELSE IF Len(text1) + Len(text2) <= CHAR_THRESHOLD_ACCURATE THEN "accurate"
    ELSE "fast"

\* The algorithm tag of a call on texts that differ.
algorithmOf(text1, text2, options) ==
    IF shouldUseLineMode(text1, text2, options) THEN "line-based"
    ELSE IF Len(text1) + Len(text2) < CHAR_THRESHOLD_ACCURATE THEN "accurate"
    ELSE "fast"

\* The Diff_Timeout (ms) under which the library runs in a call: the
\* character path sets this.dmp.Diff_Timeout = timeout / 1000 first, the line
\* path leaves what the instance holds (dt).
libraryTimeout(text1, text2, options, dt) ==
    IF shouldUseLineMode(text1, text2, options) THEN dt ELSE timeoutOf(options)

\* The edit sequence before cleanup.
coreDiff(text1, text2, options, dt, fuel) ==
    IF shouldUseLineMode(text1, text2, options)
    THEN computeLineDiff(text1, text2, dt, fuel)
    ELSE dmp_diff_main(text1, text2, timeoutOf(options), fuel)

\* The early exit for identical texts (lines 48-61).
identicalResult(text1, dt, computationTime) ==
    [res |-> [diffs |-> <<Op(DIFF_EQUAL, text1)>>,
              hitTimeout |-> FALSE,
              computationTimeMs |-> computationTime,
              algorithm |-> "fast",
              stats |-> [totalSize |-> Len(text1), changeCount |-> 0,
                         insertions |-> 0, deletions |-> 0]],
     dt |-> dt, aborted |-> FALSE]

\* The rest of computeDiff (lines 63-110).
differentResultBody(text1, text2, options, dt, computationTime, fuel) ==
    LET timeout == timeoutOf(options)
        core == coreDiff(text1, text2, options, dt, fuel)
        hitTimeout == hitTimeoutOf(computationTime, timeout)
        \* Apply semantic cleanup if not timed out and requested.
        diffs == IF ~hitTimeout
                    /\ ~(Has(options, "semanticCleanup") /\ options.semanticCleanup = FALSE)
                 THEN diff_cleanupSemantic(core.diffs) ELSE core.diffs
    IN  [aborted |-> core.aborted,
         dt |-> libraryTimeout(text1, text2, options, dt),
         res |-> [diffs |-> diffs,
                  hitTimeout |-> hitTimeout,
                  computationTimeMs |-> computationTime,
                  algorithm |-> algorithmOf(text1, text2, options),
                  stats |-> computeStats(diffs)]]

\* The method table.
Lib(fn, a) ==
    CASE fn = "diff_main" ->
            diff_mainBody(a[1], a[2], a[3], a[4])
      [] fn = "diff_compute_" ->
            diff_compute_Body(a[1], a[2], a[3], a[4])
      [] fn = "diff_bisect_" ->
            diff_bisect_Body(a[1], a[2], a[3])
      [] fn = "diff_bisectSplit_" ->
            diff_bisectSplit_Body(a[1], a[2], a[3], a[4], a[5])
      [] fn = "diff_lineMode_" ->
            diff_lineMode_Body(a[1], a[2], a[3])
      [] fn = "diff_halfMatch_" ->
            diff_halfMatch_Body(a[1], a[2], a[3])
      [] fn = "diff_cleanupMerge" ->
            diff_cleanupMergeBody(a[1])
      [] fn = "diff_cleanupSemantic" ->
            diff_cleanupSemanticBody(a[1])
      [] fn = "diff_cleanupSemanticLossless" ->
            diff_cleanupSemanticLosslessBody(a[1])
      [] fn = "diff_linesToChars_" ->
            diff_linesToChars_Body(a[1])
      [] fn = "diff_charsToLines_" ->
            diff_charsToLines_Body(a[1])
      [] fn = "bisectMiddle" ->
            bisectMiddleBody(a[1], a[2])
      [] fn = "differentResult" ->
            differentResultBody(a[1], a[2], a[3], a[4], a[5], a[6])

\* A computeDiff without the early exit.
computeDiffWithoutEarlyExit(text1, text2, options, dt, computationTime, fuel) ==
    differentResult(text1, text2, options, dt, computationTime, fuel)

\* A computeDiff whose early exit also takes an empty text for "nothing to
\* compare".
computeDiffEmptyAsIdentical(text1, text2, options, dt, computationTime, fuel) ==
    IF text1 = text2 \/ text1 = <<>> \/ text2 = <<>>
    THEN identicalResult(text1, dt, computationTime)
    ELSE differentResult(text1, text2, options, dt, computationTime, fuel)

\* A computeDiff that throws on an empty text.
computeDiffRejectingEmpty(text1, text2, options, dt, computationTime, fuel) ==
    IF text1 = <<>> \/ text2 = <<>>
    THEN [aborted |-> FALSE, dt |-> dt, res |-> [error |-> "empty input"]]
    ELSE IF text1 = text2 THEN identicalResult(text1, dt, computationTime)
    ELSE differentResult(text1, text2, options, dt, computationTime, fuel)

\* computeDiff(text1, text2, options) on an instance whose Diff_Timeout is dt,
\* when the clock shows computationTime ms after the core diff and the
\* library's deadline leaves it fuel: the DiffResult returned, the
\* Diff_Timeout left in the instance, and whether the library broke off.
computeDiff(text1, text2, options, dt, computationTime, fuel) ==
    IF text1 = text2 THEN identicalResult(text1, dt, computationTime)
    ELSE differentResult(text1, text2, options, dt, computationTime, fuel)

-----------------------------------------------------------------------------
(* The engine as a state machine: one OptimizedDiffComputer instance that  *)
(* is called again and again.                                              *)

Alphabet == {"a", "b", NL}
\* Every text of at most n characters.
TextsUpTo(n) == UNION {[1..k -> Alphabet] : k \in 0..n}
Texts == TextsUpTo(MaxLen)

Rep(c, n) == [i \in 1..n |-> c]

\* Long inputs on both sides of the character threshold (498 and 499
\* characters against one or none), and two texts of more than 100
\* characters, without a common half, that the library diffs line by line.
Line(c) == Rep(c, 49) \o <<NL>>
LongPairs ==
    LET long1 == Rep("a", CHAR_THRESHOLD_ACCURATE - 1)
        long2 == Rep("a", CHAR_THRESHOLD_ACCURATE - 2)
        lines1 == <<"x", NL>> \o Line("b") \o <<"x", NL>> \o Line("c")
        lines2 == Line("b") \o <<"y", NL>> \o Line("c") \o <<"y">>
    IN  {<<long1, <<"b">>>>, <<long2, <<"b">>>>, <<<<"b">>, long1>>, <<long1, <<>>>>,
         <<long1, long1>>, <<long1, <<NL>>>>, <<lines1, lines2>>}

InputPairs == (Texts \X Texts) \cup LongPairs

LineModeOptions == {<<>>, [lineMode |-> TRUE], [lineMode |-> FALSE]}
CleanupOptions == {<<>>, [semanticCleanup |-> TRUE], [semanticCleanup |-> FALSE]}
OptionsSet == {l @@ c : l \in LineModeOptions, c \in CleanupOptions}

\* Measured computation times (ms): at once, past the library's default
\* deadline, past the whole default budget.
Times == {0, LIBRARY_DEFAULT_TIMEOUT + 1, DEFAULT_TIMEOUT + 1}

\* Fewer texts, under every kind of time budget: none given, zero, negative,
\* short.
TimedPairs == (TextsUpTo(MaxTimedLen) \X TextsUpTo(MaxTimedLen)) \cup LongPairs
TimeoutOptions ==
    {<<>>} \cup {[maxComputationTimeMs |-> ms] : ms \in {0, -100, 100}}
TimedOptionsSet ==
    {l @@ c @@ t : l \in LineModeOptions, c \in CleanupOptions, t \in TimeoutOptions}
TimedTimes == {0, 95, LIBRARY_DEFAULT_TIMEOUT + 1, DEFAULT_TIMEOUT + 1}

\* Multi-line texts, and each of them with one more whole line (content and
\* separator) put in at a line boundary: at the start, or behind a separator.
MultiLineTexts ==
    {<<"b", NL, "y", NL>>, <<NL, "b">>, <<"a", NL, "b">>, <<"a", NL, "a", NL>>}
NewLines == {<<"a", "b", NL>>, <<"a", NL>>, <<NL>>}
lineBoundaries(text) == {k \in 0..Len(text) : k = 0 \/ text[k] = NL}
insertAt(text, k, line) == Take(text, k) \o line \o Drop(text, k)
InsertedLinePairs ==
    UNION {{<<text, insertAt(text, k, line)>> : k \in lineBoundaries(text), line \in NewLines}
               : text \in MultiLineTexts}

\* The library can break off only once its deadline has passed: the time
\* measured after the core diff is then more than the Diff_Timeout it ran
\* under, which must be positive.
Fuels(timeout, computationTime) ==
    IF timeout > 0 /\ computationTime > timeout THEN {-1} \cup (0..MaxFuel) ELSE {-1}

NoArgs == [text1 |-> <<>>, text2 |-> <<>>, options |-> <<>>]
NoResult == [diffs |-> <<>>]

EngineInit ==
    /\ Diff_Timeout = LIBRARY_DEFAULT_TIMEOUT
    /\ pc = "idle"
    /\ args = NoArgs
    /\ result = NoResult
    /\ brokeOff = FALSE

\* A caller calls computeDiff(text1, text2, options) and gets its result.
ComputeDiffOn(pairs, optionsSet, times) ==
    /\ pc = "idle"
    /\ \E pair \in pairs, options \in optionsSet, t \in times :
         \E fuel \in Fuels(libraryTimeout(pair[1], pair[2], options, Diff_Timeout), t) :
            \E r \in {computeDiff(pair[1], pair[2], options, Diff_Timeout, t, fuel)} :
                /\ args' = [text1 |-> pair[1], text2 |-> pair[2], options |-> options]
                /\ result' = r.res
                /\ brokeOff' = r.aborted
                /\ Diff_Timeout' = r.dt
                /\ pc' = "returned"
    /\ UNCHANGED <<renderVars, viewerVars, storeVars, utilVars>>

ComputeDiff == ComputeDiffOn(InputPairs, OptionsSet, Times)
ComputeDiffTimed == ComputeDiffOn(TimedPairs, TimedOptionsSet, TimedTimes)
ComputeDiffOfInsertedLine == ComputeDiffOn(InsertedLinePairs, OptionsSet, Times)

\* The caller is done with the result; the instance stays.
Release ==
    /\ pc = "returned"
    /\ pc' = "idle"
    /\ args' = NoArgs
    /\ result' = NoResult
    /\ brokeOff' = FALSE
    /\ UNCHANGED <<Diff_Timeout, renderVars, viewerVars, storeVars, utilVars>>

-----------------------------------------------------------------------------
(* renderDiffToHtml.  The two HTML strings are kept as the sequences of    *)
(* <span> elements they are made of: each element with its marking, its    *)
(* ring (highlight) class, its data-diff-index attribute (NoIndex when it  *)
(* has none) and the escaped text between its tags.                        *)

\* text.replace(/c/g, by): every occurrence of the character c.
replaceAll(text, c, by) ==
    Flatten([i \in 1..Len(text) |-> IF text[i] = c THEN by ELSE <<text[i]>>])

\* An escaping that replaces the ampersands last.
escapeHtmlAmpersandLast(text) ==
    LET r1 == replaceAll(text, "<", <<"&", "l", "t", ";">>)
        r2 == replaceAll(r1, ">", <<"&", "g", "t", ";">>)
        r3 == replaceAll(r2, "&", <<"&", "a", "m", "p", ";">>)
    IN  replaceAll(r3, NL, <<"<", "b", "r", ">">>)

\* function escapeHtml(text)
escapeHtml(text) ==
    LET r1 == replaceAll(text, "&", <<"&", "a", "m", "p", ";">>)
        r2 == replaceAll(r1, "<", <<"&", "l", "t", ";">>)
        r3 == replaceAll(r2, ">", <<"&", "g", "t", ";">>)
    IN  replaceAll(r3, NL, <<"<", "b", "r", ">">>)

NoIndex == -1
Span(marking, ring, index, html) ==
    [marking |-> marking, ring |-> ring, index |-> index, html |-> html]
TruncationMsg == Span("truncated", FALSE, NoIndex, <<>>)

\* A loop body whose counter also advances on Equal operations.
renderStepCountingEquals(diffs, maxChunks, highlightIndex, st) ==
    LET op == diffs[st.i].op
        escapedText == escapeHtml(diffs[st.i].text)
        index == IF op = DIFF_EQUAL THEN NoIndex ELSE st.actualDiffIndex
        marking == IF op = DIFF_DELETE THEN "delete"
                   ELSE IF op = DIFF_INSERT THEN "insert" ELSE "equal"
        span == Span(marking, op # DIFF_EQUAL /\ index = highlightIndex, index, escapedText)
    IN  IF st.chunkCount > maxChunks
        THEN [st EXCEPT !.leftHtml = Append(@, TruncationMsg),
                        !.rightHtml = Append(@, TruncationMsg),
                        !.truncated = TRUE, !.done = TRUE]
        ELSE [st EXCEPT !.i = @ + 1, !.chunkCount = @ + 1,
                        !.actualDiffIndex = @ + 1,
                        !.leftHtml = IF op # DIFF_INSERT THEN Append(@, span) ELSE @,
                        !.rightHtml = IF op # DIFF_DELETE THEN Append(@, span) ELSE @]

\* A loop body that tests the highlight on unchanged text too, whose index
\* is "none".
renderStepRingingEquals(diffs, maxChunks, highlightIndex, st) ==
    LET op == diffs[st.i].op
        escapedText == escapeHtml(diffs[st.i].text)
        index == IF op = DIFF_EQUAL THEN NoIndex ELSE st.actualDiffIndex
        marking == IF op = DIFF_DELETE THEN "delete"
                   ELSE IF op = DIFF_INSERT THEN "insert" ELSE "equal"
        span == Span(marking, index = highlightIndex, index, escapedText)
    IN  IF st.chunkCount > maxChunks
        THEN [st EXCEPT !.chunkCount = @ + 1,
                        !.leftHtml = Append(@, TruncationMsg),
                        !.rightHtml = Append(@, TruncationMsg),
                        !.truncated = TRUE, !.done = TRUE]
        ELSE [st EXCEPT !.i = @ + 1, !.chunkCount = @ + 1,
                        !.actualDiffIndex = IF op = DIFF_EQUAL THEN @ ELSE @ + 1,
                        !.leftHtml = IF op # DIFF_INSERT THEN Append(@, span) ELSE @,
                        !.rightHtml = IF op # DIFF_DELETE THEN Append(@, span) ELSE @]

\* A loop body that puts deleted text on the right and inserted text on the
\* left.
renderStepSwappedSides(diffs, maxChunks, highlightIndex, st) ==
    LET op == diffs[st.i].op
        escapedText == escapeHtml(diffs[st.i].text)
        index == IF op = DIFF_EQUAL THEN NoIndex ELSE st.actualDiffIndex
        marking == IF op = DIFF_DELETE THEN "delete"
                   ELSE IF op = DIFF_INSERT THEN "insert" ELSE "equal"
        span == Span(marking, op # DIFF_EQUAL /\ index = highlightIndex, index, escapedText)
    IN  IF st.chunkCount > maxChunks
        THEN [st EXCEPT !.chunkCount = @ + 1,
                        !.leftHtml = Append(@, TruncationMsg),
                        !.rightHtml = Append(@, TruncationMsg),
                        !.truncated = TRUE, !.done = TRUE]
        ELSE [st EXCEPT !.i = @ + 1, !.chunkCount = @ + 1,
                        !.actualDiffIndex = IF op = DIFF_EQUAL THEN @ ELSE @ + 1,
                        !.leftHtml = IF op # DIFF_DELETE THEN Append(@, span) ELSE @,
                        !.rightHtml = IF op # DIFF_INSERT THEN Append(@, span) ELSE @]

\* One pass of the loop over the edit sequence; st holds the function's
\* variables, i the position in diffs (from 1), done whether the loop broke.
renderStep(diffs, maxChunks, highlightIndex, st) ==
    LET op == diffs[st.i].op
        escapedText == escapeHtml(diffs[st.i].text)
        highlighted == st.actualDiffIndex = highlightIndex
        next == [st EXCEPT !.i = @ + 1, !.chunkCount = @ + 1]
    IN  IF st.chunkCount > maxChunks
        THEN [st EXCEPT !.chunkCount = @ + 1,
                        !.leftHtml = Append(@, TruncationMsg),
                        !.rightHtml = Append(@, TruncationMsg),
                        !.truncated = TRUE,
                        !.done = TRUE]
        ELSE IF op = DIFF_DELETE
        THEN [next EXCEPT
                !.leftHtml = Append(@, Span("delete", highlighted, st.actualDiffIndex, escapedText)),
                !.actualDiffIndex = @ + 1]
        ELSE IF op = DIFF_INSERT
        THEN [next EXCEPT
                !.rightHtml = Append(@, Span("insert", highlighted, st.actualDiffIndex, escapedText)),
                !.actualDiffIndex = @ + 1]
        ELSE IF op = DIFF_EQUAL
        THEN [next EXCEPT
                !.leftHtml = Append(@, Span("equal", FALSE, NoIndex, escapedText)),
                !.rightHtml = Append(@, Span("equal", FALSE, NoIndex, escapedText))]
        ELSE next

RECURSIVE renderLoop(_, _, _, _)
renderLoop(diffs, maxChunks, highlightIndex, st) ==
    IF st.done \/ st.i > Len(diffs) THEN st
    ELSE renderLoop(diffs, maxChunks, highlightIndex,
                    renderStep(diffs, maxChunks, highlightIndex, st))

renderDiffToHtml(diffs, options) ==
    LET maxChunks == IF Has(options, "maxChunks") THEN options.maxChunks
                     ELSE DEFAULT_MAX_CHUNKS
        highlightIndex == IF Has(options, "highlightIndex") THEN options.highlightIndex
                          ELSE -1
        st == renderLoop(diffs, maxChunks, highlightIndex,
                         [i |-> 1, leftHtml |-> <<>>, rightHtml |-> <<>>, chunkCount |-> 0,
                          actualDiffIndex |-> 0, truncated |-> FALSE, done |-> FALSE])
    IN  [leftHtml |-> st.leftHtml, rightHtml |-> st.rightHtml,
         changeCount |-> st.actualDiffIndex, truncated |-> st.truncated]

\* Get indices of all change locations (positions counted from 0).
\* An array of the indices of all the operations.
getAllIndices(diffs) == [k \in 1..Len(diffs) |-> k - 1]

\* getChangeIndices(diffs)
getChangeIndices(diffs) ==
    LET changes == {i \in 1..Len(diffs) : diffs[i].op # DIFF_EQUAL}
        nth(k) == CHOOSE i \in changes : Cardinality({j \in changes : j < i}) = k - 1
    IN  [k \in 1..Cardinality(changes) |-> nth(k) - 1]

\* The renderer as a state machine: a caller hands it an edit sequence.
OpTags == {DIFF_DELETE, DIFF_INSERT, DIFF_EQUAL}
RenderTexts == {<<"a", "&">>, <<"<", ">", NL>>}
EditOps == {Op(o, t) : o \in OpTags, t \in RenderTexts}
EditSequences == UNION {[1..n -> EditOps] : n \in 0..MaxOps}
MaxChunksOptions == {<<>>} \cup {[maxChunks |-> n] : n \in 0..MaxChunksBound}
HighlightOptions == {<<>>} \cup {[highlightIndex |-> n] : n \in -1..(MaxOps - 1)}
RenderOptionsSet == {m @@ h : m \in MaxChunksOptions, h \in HighlightOptions}

\* Span texts made of the characters that escaping is about, among them
\* texts that already look escaped.
EscapeAlphabet == {"&", "<", ">", NL, "a", ";"}
EscapeTexts ==
    UNION {[1..n -> EscapeAlphabet] : n \in 0..MaxEscapeLen}
        \cup {<<"&", "a", "m", "p", ";">>, <<"&", "l", "t", ";">>, <<"&", "g", "t", ";">>,
              <<"<", "b", "r", ">">>, <<"&", "a", "m", "p", ";", "l", "t", ";">>}
EscapeSequences == {<<Op(o, t)>> : o \in OpTags, t \in EscapeTexts}

\* null: no value.
Null == [isNull |-> TRUE]

NoRendered == [leftHtml |-> <<>>, rightHtml |-> <<>>, changeCount |-> 0, truncated |-> FALSE]

RenderInit ==
    /\ rdiffs = <<>>
    /\ ropts = <<>>
    /\ rendered = Null

\* A caller calls renderDiffToHtml(diffs, options) and gets the view.
Render ==
    /\ rendered = Null
    /\ \E diffs \in EditSequences, options \in RenderOptionsSet :
         /\ rdiffs' = diffs
         /\ ropts' = options
         /\ rendered' = renderDiffToHtml(diffs, options)
    /\ UNCHANGED <<engineVars, viewerVars, storeVars, utilVars>>

\* The same call on a single operation, whatever its text.
RenderEscaping ==
    /\ rendered = Null
    /\ \E diffs \in EscapeSequences :
         /\ rdiffs' = diffs
         /\ ropts' = <<>>
         /\ rendered' = renderDiffToHtml(diffs, <<>>)
    /\ UNCHANGED <<engineVars, viewerVars, storeVars, utilVars>>

\* The caller is done with the view.
DropRendered ==
    /\ rendered # Null
    /\ rdiffs' = <<>>
    /\ ropts' = <<>>
    /\ rendered' = Null
    /\ UNCHANGED <<engineVars, viewerVars, storeVars, utilVars>>

-----------------------------------------------------------------------------
(* The diff viewer component (DiffViewer.svelte).  computeDiff there is    *)
(* async: it runs up to its await, and the rest runs as a later task.      *)
(* pending holds, in timer order, the calls that are suspended at the      *)
(* await, each with what it will need of the totalSize it captured:        *)
(* whether it is more than PERF_SIZE.                                      *)

\* curr[1].length < 3, of optimizeDiffs
NOISE_LENGTH == 3

\* optimizeDiffs, from position i (counted from 1) on.
RECURSIVE optimizeFrom(_, _)
optimizeFrom(diffs, i) ==
    IF i > Len(diffs) THEN <<>>
    ELSE IF /\ diffs[i].op = DIFF_EQUAL
            /\ Len(diffs[i].text) < NOISE_LENGTH
            /\ i - 1 > 0
            /\ i - 1 < Len(diffs) - 1
            /\ diffs[i - 1].op # DIFF_EQUAL
            /\ diffs[i + 1].op # DIFF_EQUAL
         THEN optimizeFrom(diffs, i + 1)
         ELSE <<diffs[i]>> \o optimizeFrom(diffs, i + 1)

\* optimizeDiffs(diffs)
optimizeDiffs(diffs) == optimizeFrom(diffs, 1)

UtilInit ==
    /\ odiffs = <<>>
    /\ optimized = Null
    /\ changeIndices = Null

\* A caller calls optimizeDiffs(diffs) and gets its result.
OptimizeDiffs ==
    /\ optimized = Null
    /\ \E diffs \in EditSequences :
         /\ odiffs' = diffs
         /\ optimized' = [diffs |-> optimizeDiffs(diffs)]
    /\ UNCHANGED <<changeIndices, engineVars, renderVars, viewerVars, storeVars>>

\* The caller is done with the optimized sequence.
DropOptimized ==
    /\ optimized # Null
    /\ odiffs' = <<>>
    /\ optimized' = Null
    /\ UNCHANGED <<changeIndices, engineVars, renderVars, viewerVars, storeVars>>

\* The caller of computeDiff renders the edit sequence it got.
RenderResult ==
    /\ pc = "returned"
    /\ rendered = Null
    /\ \E options \in MaxChunksOptions :
         /\ rdiffs' = result.diffs
         /\ ropts' = options
         /\ rendered' = renderDiffToHtml(result.diffs, options)
    /\ UNCHANGED <<engineVars, viewerVars, storeVars, utilVars>>

\* The caller of computeDiff calls getChangeIndices on the edit sequence it
\* got.
GetChangeIndices ==
    /\ pc = "returned"
    /\ changeIndices = Null
    /\ changeIndices' = [indices |-> getChangeIndices(result.diffs)]
    /\ UNCHANGED <<odiffs, optimized, engineVars, renderVars, viewerVars, storeVars>>

\* The caller is done with the array of indices.
DropChangeIndices ==
    /\ changeIndices # Null
    /\ changeIndices' = Null
    /\ UNCHANGED <<odiffs, optimized, engineVars, renderVars, viewerVars, storeVars>>

MAX_SIZE == 100000
PERF_TIME_MS == 100
PERF_SIZE == 10000
MaxPending == 2

ViewerTexts ==
    {<<>>, <<"a", "a", "x", "b", "b">>, <<"y", "a", "a", "b", "b", "z">>,
     <<"a", "a", NL, "b", "b">>}
\* Values of the left and right URL parameters, as URLSearchParams yields
\* them; none and the empty string are both falsy.
UrlParams == {<<>>, <<"a", "a", "x", "b", "b">>, <<"%">>}
ViewerTimes == {0, DEFAULT_TIMEOUT + 1}

ViewerOptions ==
    [maxComputationTimeMs |-> 5000, semanticCleanup |-> TRUE, lineMode |-> TRUE]

\* decodeURIComponent: a text without '%' is returned as it is; a '%' that
\* does not start an escape sequence throws URIError.  The model's texts
\* hold no well-formed escape sequence.
decodeURIComponent(text) ==
    IF includes(text, "%") THEN [threw |-> TRUE, value |-> <<>>]
    ELSE [threw |-> FALSE, value |-> text]

\* const renderedDiff = $derived.by(...)
renderedDiffOf(shown, index) ==
    IF shown = Null THEN NoRendered
    ELSE renderDiffToHtml(shown.diffs,
                          [maxChunks |-> 5000, highlightIndex |-> index])
renderedDiff == renderedDiffOf(diffResult, currentDiffIndex)
diffChunkCount == renderedDiff.changeCount

ViewerInit ==
    /\ mounted = "unmounted"
    /\ leftText = <<>>
    /\ rightText = <<>>
    /\ diffResult = Null
    /\ isComputing = FALSE
    /\ currentDiffIndex = 0
    /\ showPerfMetrics = FALSE
    /\ showSizeWarning = FALSE
    /\ pending = <<>>
    /\ viewerDT = LIBRARY_DEFAULT_TIMEOUT

\* computeDiff() up to its await, called with the texts as they are then.
StartComputeDiff(left, right) ==
    /\ showSizeWarning' = (Len(left) + Len(right) > MAX_SIZE)
    /\ isComputing' = TRUE
    /\ currentDiffIndex' = 0
    /\ pending' = Append(pending, Len(left) + Len(right) > PERF_SIZE)

\* onMount: load the texts from the URL parameters and compare them, then
\* register the keyboard shortcuts.
Mount ==
    /\ mounted = "unmounted"
    /\ \E left \in UrlParams, right \in UrlParams :
         LET l == decodeURIComponent(left)
             r == decodeURIComponent(right)
             newLeft == IF left # <<>> /\ ~l.threw THEN l.value ELSE leftText
             newRight == IF right # <<>> THEN r.value ELSE rightText
         IN  /\ leftText' = newLeft
             /\ IF (left # <<>> /\ l.threw) \/ (right # <<>> /\ r.threw)
                THEN /\ mounted' = "failed"
                     /\ UNCHANGED <<rightText, isComputing, currentDiffIndex,
                                    showSizeWarning, pending>>
                ELSE /\ mounted' = "mounted"
                     /\ rightText' = newRight
                     /\ IF left # <<>> \/ right # <<>>
                        THEN StartComputeDiff(newLeft, newRight)
                        ELSE UNCHANGED <<isComputing, currentDiffIndex,
                                         showSizeWarning, pending>>
    /\ UNCHANGED <<diffResult, showPerfMetrics, viewerDT, engineVars, renderVars, storeVars, utilVars>>

\* The Compare button, disabled while isComputing.
ClickCompare ==
    /\ mounted # "unmounted"
    /\ ~isComputing
    /\ StartComputeDiff(leftText, rightText)
    /\ UNCHANGED <<mounted, leftText, rightText, diffResult, showPerfMetrics,
                   viewerDT, engineVars, renderVars, storeVars, utilVars>>

\* reader.onload of handleLeftFileUpload.
LeftFileLoaded ==
    /\ mounted # "unmounted"
    /\ Len(pending) < MaxPending
    /\ \E text \in ViewerTexts :
         /\ leftText' = text
         /\ StartComputeDiff(text, rightText)
    /\ UNCHANGED <<mounted, rightText, diffResult, showPerfMetrics, viewerDT,
                   engineVars, renderVars, storeVars, utilVars>>

\* reader.onload of handleRightFileUpload.
RightFileLoaded ==
    /\ mounted # "unmounted"
    /\ Len(pending) < MaxPending
    /\ \E text \in ViewerTexts :
         /\ rightText' = text
         /\ StartComputeDiff(leftText, text)
    /\ UNCHANGED <<mounted, leftText, diffResult, showPerfMetrics, viewerDT,
                   engineVars, renderVars, storeVars, utilVars>>

\* Typing in a textarea (bind:value).
EditLeft ==
    /\ mounted # "unmounted"
    /\ \E text \in ViewerTexts : leftText' = text
    /\ UNCHANGED <<mounted, rightText, diffResult, isComputing, currentDiffIndex,
                   showPerfMetrics, showSizeWarning, pending, viewerDT,
                   engineVars, renderVars, storeVars, utilVars>>

EditRight ==
    /\ mounted # "unmounted"
    /\ \E text \in ViewerTexts : rightText' = text
    /\ UNCHANGED <<mounted, leftText, diffResult, isComputing, currentDiffIndex,
                   showPerfMetrics, showSizeWarning, pending, viewerDT,
                   engineVars, renderVars, storeVars, utilVars>>

\* The rest of computeDiff(), after the await: the oldest suspended call
\* diffs the texts as they are now and installs the result.
ResumeComputeDiff ==
    /\ pending # <<>>
    /\ \E t \in ViewerTimes :
         \E fuel \in Fuels(libraryTimeout(leftText, rightText, ViewerOptions, viewerDT), t) :
            \E r \in {computeDiff(leftText, rightText, ViewerOptions, viewerDT, t, fuel)} :
                /\ diffResult' = r.res
                /\ viewerDT' = r.dt
                /\ showPerfMetrics' =
                       (r.res.computationTimeMs > PERF_TIME_MS \/ Head(pending))
    /\ isComputing' = FALSE
    /\ pending' = Tail(pending)
    /\ UNCHANGED <<mounted, leftText, rightText, currentDiffIndex, showSizeWarning,
                   engineVars, renderVars, storeVars, utilVars>>

\* The navigation buttons are in the page only beside a shown diff that has
\* changes; the keyboard shortcuts work once onMount has registered them.
NavButtonsShown ==
    /\ ~isComputing
    /\ diffResult # Null
    /\ Len(diffResult.diffs) > 0
    /\ diffChunkCount > 0

\* A 'next' that wraps around to the first change.
goToNextDiffWrapping(index, count) == IF index < count - 1 THEN index + 1 ELSE 0

goToNextDiff(index, count) == IF index < count - 1 THEN index + 1 ELSE index
goToPreviousDiff(index) == IF index > 0 THEN index - 1 ELSE index

\* 'n' or ArrowDown, or the Next button (disabled on the last change).
GoToNextDiff ==
    /\ \/ mounted = "mounted"
       \/ mounted = "failed" /\ NavButtonsShown /\ currentDiffIndex # diffChunkCount - 1
    /\ currentDiffIndex' = goToNextDiff(currentDiffIndex, diffChunkCount)
    /\ UNCHANGED <<mounted, leftText, rightText, diffResult, isComputing,
                   showPerfMetrics, showSizeWarning, pending, viewerDT,
                   engineVars, renderVars, storeVars, utilVars>>

\* 'p' or ArrowUp, or the Previous button (disabled on the first change).
GoToPreviousDiff ==
    /\ \/ mounted = "mounted"
       \/ mounted = "failed" /\ NavButtonsShown /\ currentDiffIndex # 0
    /\ currentDiffIndex' = goToPreviousDiff(currentDiffIndex)
    /\ UNCHANGED <<mounted, leftText, rightText, diffResult, isComputing,
                   showPerfMetrics, showSizeWarning, pending, viewerDT,
                   engineVars, renderVars, storeVars, utilVars>>

\* The Clear All button, disabled while isComputing.
ClearAll ==
    /\ mounted # "unmounted"
    /\ ~isComputing
    /\ leftText' = <<>>
    /\ rightText' = <<>>
    /\ diffResult' = Null
    /\ currentDiffIndex' = 0
    /\ showPerfMetrics' = FALSE
    /\ UNCHANGED <<mounted, isComputing, showSizeWarning, pending, viewerDT,
                   engineVars, renderVars, storeVars, utilVars>>

-----------------------------------------------------------------------------
(* The stored diffs: the table diff_documents and the HTTP handlers that   *)
(* read and write it, in the SvelteKit application ("api" for its API      *)
(* routes, "page" for the page loader of /diff/[id]) and in the Fastify    *)
(* backend ("fastify"), which share the database.  Time is counted in      *)
(* days.  A value that may be null or undefined is a record: Null,         *)
(* Undefined, Str(s) for a string, Date(t) for a Date; a field that a      *)
(* request body may lack is a field that the record may lack.              *)

Undefined == [isUndefined |-> TRUE]
Str(s) == [str |-> s]
Date(t) == [time |-> t]

\* HTTP status codes of the answers.
HTTP_OK == 200
HTTP_BAD_REQUEST == 400
HTTP_FORBIDDEN == 403
HTTP_NOT_FOUND == 404
HTTP_GONE == 410
HTTP_SERVER_ERROR == 500

\* const { textA, textB, ttlDays = 7, isPrivate = false } = body
DEFAULT_TTL_DAYS == 7
\* const MAX_SIZE = 5 * 1024 * 1024, of the create handlers
CREATE_MAX_SIZE == 5242880

Routes == {"api", "page", "fastify"}
ApiRoutes == {"api", "fastify"}

\* The values of nanoid(10) and of nanoid(32).
ShortIds == {"d1", "d2"}
AccessTokens == {"t1"}
\* The short ids drawn while a single diff is stored.
FirstIds == {"d1"}
\* The short ids and the tokens that the GET requests name.
RequestedIds == FirstIds \cup {"d0"}
PresentedTokens == AccessTokens \cup {"t0"}

\* The values of the fields textA and textB of a request body: a string
\* with its length (of a long string the model keeps the first character),
\* or a number.
JsString(chars) == [type |-> "string", chars |-> chars, length |-> Len(chars)]
LongString == [type |-> "string", chars |-> <<"a">>, length |-> CREATE_MAX_SIZE + 1]
JsNumber(n) == [type |-> "number", value |-> n]

\* The bodies of the create requests.
CreateBodies ==
    [textA : {JsString(<<"a">>)}, textB : {JsString(<<>>), JsString(<<"b">>)}]
        \cup [textA : {JsString(<<"a">>)}, textB : {JsString(<<"b">>)}, ttlDays : {0, 1}]
        \cup [textA : {JsString(<<"a">>)}, textB : {JsString(<<"b">>)},
              ttlDays : {1}, isPrivate : {TRUE}]

\* The bodies of the create requests, the ill-formed ones among them.
TextValues == {JsString(<<>>), JsString(<<"a">>), LongString, JsNumber(1)}
withField(bodies, name, values) ==
    bodies \cup {[f \in DOMAIN b \cup {name} |-> IF f = name THEN v ELSE b[f]] :
                    b \in bodies, v \in values}
AnyBodies ==
    withField(withField(withField(withField({<<>>}, "textA", TextValues),
                                  "textB", TextValues),
                        "ttlDays", {0, 1}),
              "isPrivate", BOOLEAN)

\* A field of a destructured body, with its default.
field(body, name, default) == IF name \in DOMAIN body THEN body[name] ELSE default

\* The token of a GET request: url.searchParams.get('token') is null and
\* request.query.token is undefined when the URL has none.
noToken(route) == IF route = "fastify" THEN Undefined ELSE Null
RequestTokens(route) == {noToken(route)} \cup {Str(t) : t \in PresentedTokens}

NoDocument == Undefined
NoReply == [status |-> 0]
NewRequest == [pc |-> "new"]

StoreInit ==
    /\ now = 0
    /\ diffDocuments = [id \in ShortIds |-> NoDocument]
    /\ drawnIds = {}
    /\ lastReply = NoReply
    /\ requests = [r \in 1..MaxRequests |-> NewRequest]

\* A day passes.
Tick ==
    /\ now < MaxNow
    /\ now' = now + 1
    /\ UNCHANGED <<diffDocuments, drawnIds, lastReply, requests,
                   engineVars, renderVars, viewerVars, utilVars>>

\* The row that a create request inserts.
newDocument(body, shortId, token, today) ==
    LET ttlDays == field(body, "ttlDays", DEFAULT_TTL_DAYS)
        isPrivate == field(body, "isPrivate", FALSE)
    IN  [shortId |-> shortId,
         textA |-> body.textA.chars,
         textB |-> body.textB.chars,
         textASize |-> body.textA.length,
         textBSize |-> body.textB.length,
         ttlDays |-> ttlDays,
         expiresAt |-> Date(today + ttlDays),
         isPrivate |-> isPrivate,
         accessToken |-> IF isPrivate THEN Str(token) ELSE Null,
         viewCount |-> 0]

\* The answer of a create request that inserted document.
createdReply(document) ==
    [status |-> HTTP_OK,
     shortId |-> document.shortId,
     url |-> [path |-> document.shortId,
              token |-> IF document.isPrivate THEN document.accessToken ELSE Null],
     expiresAt |-> document.expiresAt,
     isPrivate |-> document.isPrivate]

\* !value, for a field of a body.
falsy(value) ==
    IF value = Undefined THEN TRUE
    ELSE IF value.type = "string" THEN value.length = 0
    ELSE value.value = 0

\* typeof value !== 'string'
notString(value) == value.type # "string"

\* value.length > MAX_SIZE; the length of a number is undefined, and no
\* comparison with undefined is true.
exceedsMaxSize(value) ==
    IF value.type = "string" THEN value.length > CREATE_MAX_SIZE ELSE FALSE

\* Whether a create handler answers the body with 400: the SvelteKit route
\* checks the type of the texts, the Fastify route does not.
rejected(route, body) ==
    LET textA == field(body, "textA", Undefined)
        textB == field(body, "textB", Undefined)
    IN  IF falsy(textA) \/ falsy(textB) THEN TRUE
        ELSE IF route = "api" /\ (notString(textA) \/ notString(textB)) THEN TRUE
        ELSE exceedsMaxSize(textA) \/ exceedsMaxSize(textB)

\* Whether the insert fails: the size of a text that is no string is
\* undefined, and the columns text_a_size and text_b_size are NOT NULL.
insertFails(body) == notString(body.textA) \/ notString(body.textB)

\* POST /api/diff, of one server and with one body.
CreateRequest(route, body, ids) ==
    /\ IF rejected(route, body)
       THEN /\ lastReply' = [status |-> HTTP_BAD_REQUEST]
            /\ UNCHANGED <<diffDocuments, drawnIds>>
       ELSE IF insertFails(body)
       THEN /\ lastReply' = [status |-> HTTP_SERVER_ERROR]
            /\ UNCHANGED <<diffDocuments, drawnIds>>
       ELSE \E shortId \in ids \ drawnIds, token \in AccessTokens :
              LET document == newDocument(body, shortId, token, now)
              IN  /\ drawnIds' = drawnIds \cup {shortId}
                  /\ diffDocuments' = [diffDocuments EXCEPT ![shortId] = document]
                  /\ lastReply' = createdReply(document)
    /\ UNCHANGED <<now, requests, engineVars, renderVars, viewerVars, utilVars>>

\* POST /api/diff, of either server.
CreateOn(bodies, ids) ==
    \E route \in ApiRoutes, body \in bodies : CreateRequest(route, body, ids)

Create == CreateOn(CreateBodies, FirstIds)
CreateSeveral == CreateOn(CreateBodies, ShortIds)
CreateAny == CreateOn(AnyBodies, ShortIds)

\* The row that eq(shortId, id) selects, if any.
selectByShortId(table, id) == IF id \in DOMAIN table THEN table[id] ELSE NoDocument

\* A selection that takes the rows expiring at the time of the call as well.
expiredIdsInclusive(table, today) ==
    {id \in ShortIds : /\ table[id] # NoDocument
                       /\ table[id].expiresAt # Null
                       /\ table[id].expiresAt.time <= today}

\* The rows that lt(expiresAt, new Date()) selects.
expiredIds(table, today) ==
    {id \in ShortIds : /\ table[id] # NoDocument
                       /\ table[id].expiresAt # Null
                       /\ table[id].expiresAt.time < today}

\* POST /api/cleanup, of either server.
Cleanup ==
    /\ \E route \in ApiRoutes :
         LET deleted == expiredIds(diffDocuments, now)
         IN  /\ diffDocuments' =
                    [id \in ShortIds |->
                        IF id \in deleted THEN NoDocument ELSE diffDocuments[id]]
             /\ lastReply' = [status |-> HTTP_OK, deleted |-> Cardinality(deleted)]
    /\ UNCHANGED <<now, drawnIds, requests, engineVars, renderVars, viewerVars, utilVars>>

\* A retrieval whose checks let the token pass before the expiry.
retrievalStatusTokenFirst(document, token, today) ==
    IF document = NoDocument THEN HTTP_NOT_FOUND
    ELSE IF document.isPrivate /\ document.accessToken # token THEN HTTP_FORBIDDEN
    ELSE IF document.expiresAt # Null /\ document.expiresAt.time < today THEN HTTP_GONE
    ELSE HTTP_OK

\* The checks of a retrieval on the row it selected.
retrievalStatus(document, token, today) ==
    IF document = NoDocument THEN HTTP_NOT_FOUND
    ELSE IF document.expiresAt # Null /\ document.expiresAt.time < today THEN HTTP_GONE
    ELSE IF document.isPrivate /\ document.accessToken # token THEN HTTP_FORBIDDEN
    ELSE HTTP_OK

\* What a retrieval answers with: the page loader leaves the sizes out.
retrieved(route, document) ==
    IF route = "page"
    THEN [shortId |-> document.shortId,
          textA |-> document.textA,
          textB |-> document.textB,
          expiresAt |-> document.expiresAt,
          viewCount |-> document.viewCount + 1]
    ELSE [shortId |-> document.shortId,
          textA |-> document.textA,
          textB |-> document.textB,
          textASize |-> document.textASize,
          textBSize |-> document.textBSize,
          expiresAt |-> document.expiresAt,
          viewCount |-> document.viewCount + 1]

\* An update that writes the count that the request read, plus 1.
incrementViewCountRead(table, id, document) ==
    IF selectByShortId(table, id) = NoDocument
    THEN table
    ELSE [table EXCEPT ![id].viewCount = document.viewCount + 1]

\* update ... set viewCount = viewCount + 1 where eq(shortId, id), by a
\* request that has read document.
incrementViewCount(table, id, document) ==
    IF selectByShortId(table, id) = NoDocument
    THEN table
    ELSE [table EXCEPT ![id].viewCount = table[id].viewCount + 1]

\* GET of a diff, up to the answer of its select.
GetSelect ==
    /\ \E r \in 1..MaxRequests :
         /\ requests[r].pc = "new"
         /\ \A q \in 1..(r - 1) : requests[q].pc # "new"
         /\ \E route \in Routes, id \in RequestedIds :
              \E token \in RequestTokens(route) :
                 requests' = [requests EXCEPT ![r] =
                     [pc |-> "selected", route |-> route, id |-> id, token |-> token,
                      document |-> selectByShortId(diffDocuments, id)]]
    /\ UNCHANGED <<now, diffDocuments, drawnIds, lastReply,
                   engineVars, renderVars, viewerVars, utilVars>>

\* GET of a diff, from the answer of its select to its answer or its update.
GetCheck ==
    /\ \E r \in 1..MaxRequests :
         /\ requests[r].pc = "selected"
         /\ LET q == requests[r]
                status == retrievalStatus(q.document, q.token, now)
            IN  requests' = [requests EXCEPT ![r] =
                    IF status = HTTP_OK
                    THEN [pc |-> "updating", route |-> q.route, id |-> q.id,
                          token |-> q.token, document |-> q.document, checkedAt |-> now]
                    ELSE [pc |-> "done", route |-> q.route, id |-> q.id,
                          token |-> q.token, document |-> q.document, checkedAt |-> now,
                          response |-> [status |-> status, body |-> Null]]]
    /\ UNCHANGED <<now, diffDocuments, drawnIds, lastReply,
                   engineVars, renderVars, viewerVars, utilVars>>

\* GET of a diff, its update of the view count and its answer.
GetUpdate ==
    /\ \E r \in 1..MaxRequests :
         /\ requests[r].pc = "updating"
         /\ LET q == requests[r]
            IN  /\ diffDocuments' = incrementViewCount(diffDocuments, q.id, q.document)
                /\ requests' = [requests EXCEPT ![r] =
                       [pc |-> "done", route |-> q.route, id |-> q.id,
                        token |-> q.token, document |-> q.document,
                        checkedAt |-> q.checkedAt,
                        response |-> [status |-> HTTP_OK,
                                      body |-> retrieved(q.route, q.document)]]]
    /\ UNCHANGED <<now, drawnIds, lastReply, engineVars, renderVars, viewerVars, utilVars>>

-----------------------------------------------------------------------------
(* Specifications. *)

Init == EngineInit /\ RenderInit /\ ViewerInit /\ StoreInit /\ UtilInit

\* The engine, called again and again.
Next == ComputeDiff \/ Release
Spec == Init /\ [][Next]_vars

\* The engine under every kind of time budget.
TimingNext == ComputeDiffTimed \/ Release
TimingSpec == Init /\ [][TimingNext]_vars

\* The engine on texts that differ by one inserted line.
InsertedLineNext == ComputeDiffOfInsertedLine \/ Release
InsertedLineSpec == Init /\ [][InsertedLineNext]_vars

\* The renderer.
RenderNext == Render \/ DropRendered
RenderSpec == Init /\ [][RenderNext]_vars

\* The renderer's escaping.
EscapeNext == RenderEscaping \/ DropRendered
EscapeSpec == Init /\ [][EscapeNext]_vars

\* The module's two exported functions, one call at a time.
EngineCall == rendered = Null /\ ComputeDiff
RenderCall == pc = "idle" /\ Render
LibraryNext == EngineCall \/ Release \/ RenderCall \/ DropRendered
LibrarySpec == Init /\ [][LibraryNext]_vars

\* The noise reduction of edit sequences.
OptimizeNext == OptimizeDiffs \/ DropOptimized
OptimizeSpec == Init /\ [][OptimizeNext]_vars

\* The engine's results, rendered and inspected.
ResultCall ==
    rendered = Null /\ changeIndices = Null /\ ComputeDiffOn(Texts \X Texts, OptionsSet, {0})
ResultNext ==
    ResultCall \/ Release \/ RenderResult \/ DropRendered \/ GetChangeIndices
        \/ DropChangeIndices
ResultSpec == Init /\ [][ResultNext]_vars

\* The stored diffs and their clients.
StoreNext == Tick \/ Create \/ Cleanup \/ GetSelect \/ GetCheck \/ GetUpdate
StoreSpec == Init /\ [][StoreNext]_vars

\* Several stored diffs, their cleanup and their clients.
FirstGetSelect == (\A r \in 1..MaxRequests : requests[r].pc = "new") /\ GetSelect
CleanupNext == Tick \/ CreateSeveral \/ Cleanup \/ FirstGetSelect \/ GetCheck \/ GetUpdate
CleanupSpec == Init /\ [][CleanupNext]_vars

\* Create requests of every kind.
CreateNext == Tick \/ CreateAny \/ Cleanup
CreateSpec == Init /\ [][CreateNext]_vars

\* The viewer component and its user.
ViewerNext ==
    \/ Mount
    \/ ClickCompare
    \/ LeftFileLoaded
    \/ RightFileLoaded
    \/ EditLeft
    \/ EditRight
    \/ ResumeComputeDiff
    \/ GoToNextDiff
    \/ GoToPreviousDiff
    \/ ClearAll
ViewerSpec == Init /\ [][ViewerNext]_vars

-----------------------------------------------------------------------------
(* Properties of the engine. *)

\* The texts of the operations whose tag is in ops, concatenated in order.
textOfOps(diffs, ops) ==
    Flatten([i \in 1..Len(diffs) |-> IF diffs[i].op \in ops THEN diffs[i].text ELSE <<>>])

lineModeOption(options) ==
    IF ~Has(options, "lineMode") THEN "unset"
    ELSE IF options.lineMode THEN "true" ELSE "false"
hasSeparator(text1, text2) ==
    (\E i \in 1..Len(text1) : text1[i] = NL) \/ (\E i \in 1..Len(text2) : text2[i] = NL)

\* C1 (Reconstruction): in the edit sequence computeDiff returns, the texts of
\* the Equal and Delete operations concatenate to the first input and those
\* of the Equal and Insert operations to the second, on every path.
C1_Reconstruction ==
    pc = "returned" =>
        /\ textOfOps(result.diffs, {DIFF_EQUAL, DIFF_DELETE}) = args.text1
        /\ textOfOps(result.diffs, {DIFF_EQUAL, DIFF_INSERT}) = args.text2

\* A line-mode call that the library broke off and that reports hitTimeout.
C1_Witness ==
    /\ pc = "returned"
    /\ result.algorithm = "line-based"
    /\ result.hitTimeout
    /\ brokeOff
    /\ Len(result.diffs) >= 2
    /\ Len(args.text1) >= 2
    /\ textOfOps(result.diffs, {DIFF_EQUAL, DIFF_DELETE}) = args.text1

\* C2 (Identity): computeDiff(a, a, options) returns exactly one operation
\* Equal(a), zero changeCount, insertions and deletions, the tag 'fast' and
\* hitTimeout false, whatever the options.
C2_Identity ==
    (pc = "returned" /\ args.text1 = args.text2) =>
        /\ result.diffs = <<Op(DIFF_EQUAL, args.text1)>>
        /\ result.stats.changeCount = 0
        /\ result.stats.insertions = 0
        /\ result.stats.deletions = 0
        /\ result.algorithm = "fast"
        /\ result.hitTimeout = FALSE

\* Identical multi-line texts under a zero budget, with time on the clock.
C2_Witness ==
    /\ pc = "returned"
    /\ args.text1 = args.text2
    /\ hasSeparator(args.text1, args.text2)
    /\ Has(args.options, "maxComputationTimeMs")
    /\ args.options.maxComputationTimeMs = 0
    /\ lineModeOption(args.options) = "unset"
    /\ result.computationTimeMs > 0
    /\ result.hitTimeout = FALSE

C8_Statistics ==
    pc = "returned" =>
        LET diffs == result.diffs
            lengths(ops) == Len(textOfOps(diffs, ops))
        IN  /\ result.stats.changeCount =
                   Cardinality({i \in 1..Len(diffs) : diffs[i].op # DIFF_EQUAL})
            /\ result.stats.insertions = lengths({DIFF_INSERT})
            /\ result.stats.deletions = lengths({DIFF_DELETE})
            /\ result.stats.totalSize = lengths({DIFF_EQUAL, DIFF_DELETE, DIFF_INSERT})
            /\ result.stats.totalSize = Len(args.text1) + result.stats.insertions
            /\ result.stats.totalSize = Len(args.text2) + result.stats.deletions

\* A result with an Equal, a Delete and an Insert, one change two characters
\* long: changes are counted per operation.
C8_Witness ==
    /\ pc = "returned"
    /\ result.stats.changeCount = 2
    /\ result.stats.insertions + result.stats.deletions = 3
    /\ \E i \in 1..Len(result.diffs) : result.diffs[i].op = DIFF_EQUAL
    /\ \E i \in 1..Len(result.diffs) : result.diffs[i].op = DIFF_DELETE
    /\ \E i \in 1..Len(result.diffs) : result.diffs[i].op = DIFF_INSERT

\* C9 (Line-mode activation and tag), as the code has it: for texts that
\* differ the tag is 'line-based' exactly when options.lineMode is not false
\* (true or unset) and at least one text contains a line separator, whatever
\* the size; lineMode true does not make it so for texts without separator.
C9_LineModeTag ==
    (pc = "returned" /\ args.text1 # args.text2) =>
        (result.algorithm = "line-based"
            <=> /\ lineModeOption(args.options) # "false"
                /\ hasSeparator(args.text1, args.text2))

\* A line-based call on 500 characters in all, with lineMode unset.
C9_Witness ==
    /\ pc = "returned"
    /\ args.text1 # args.text2
    /\ lineModeOption(args.options) = "unset"
    /\ Len(args.text1) + Len(args.text2) >= CHAR_THRESHOLD_ACCURATE
    /\ result.algorithm = "line-based"

\* C9 as the specification states it: lineMode true alone gives line mode,
\* unset gives it when a text holds a separator, false never.
C9_AsStated ==
    (pc = "returned" /\ args.text1 # args.text2) =>
        /\ lineModeOption(args.options) = "true" => result.algorithm = "line-based"
        /\ (lineModeOption(args.options) = "unset" /\ hasSeparator(args.text1, args.text2))
               => result.algorithm = "line-based"
        /\ lineModeOption(args.options) = "false" => result.algorithm # "line-based"

\* C10 (Character-mode threshold): for texts that differ and are handled in
\* character mode, the tag is 'accurate' exactly when |textA| + |textB| < 500
\* and 'fast' exactly when it is >= 500.
C10_CharThreshold ==
    (pc = "returned" /\ args.text1 # args.text2 /\ result.algorithm # "line-based") =>
        LET total == Len(args.text1) + Len(args.text2)
        IN  /\ result.algorithm = "accurate" <=> total < 500
            /\ result.algorithm = "fast" <=> total >= 500

\* Character mode on exactly 500 characters: tagged 'fast'.
C10_Witness ==
    /\ pc = "returned"
    /\ args.text1 # args.text2
    /\ Len(args.text1) + Len(args.text2) = 500
    /\ result.algorithm = "fast"
    /\ ~hasSeparator(args.text1, args.text2)

-----------------------------------------------------------------------------
(* Properties of the renderer. *)

changePositions(diffs) == {i \in 1..Len(diffs) : diffs[i].op # DIFF_EQUAL}
indexedSpans(html) == {i \in 1..Len(html) : html[i].marking \in {"delete", "insert"}}
alternatingTags(diffs) == \A i \in 1..(Len(diffs) - 1) : diffs[i].op # diffs[i + 1].op

\* C4 (Monotonic region indexing): the rendered non-Equal operations, taken
\* in the order of the edit sequence and across both outputs together, carry
\* the indices 0, 1, 2, ...; an Equal operation carries none and does not
\* advance the counter.
C4_MonotonicIndexing ==
    rendered # Null =>
        LET left == rendered.leftHtml
            right == rendered.rightHtml
            n == rendered.changeCount
            changes == changePositions(rdiffs)
            before(i) == Cardinality({j \in changes : j < i})
        IN  /\ \A i \in changes : before(i) < n =>
                   IF rdiffs[i].op = DIFF_DELETE
                   THEN \E s \in indexedSpans(left) : left[s].index = before(i)
                   ELSE \E s \in indexedSpans(right) : right[s].index = before(i)
            /\ Cardinality(indexedSpans(left)) + Cardinality(indexedSpans(right)) = n
            /\ {left[s].index : s \in indexedSpans(left)}
                   \cup {right[s].index : s \in indexedSpans(right)} = 0..(n - 1)
            /\ \A s \in (1..Len(left)) \ indexedSpans(left) : left[s].index = NoIndex
            /\ \A s \in (1..Len(right)) \ indexedSpans(right) : right[s].index = NoIndex

\* Insert, Equal, Delete, Insert: the indices 0 and 2 on the right, 1 on the
\* left, none on the Equal.
C4_Witness ==
    /\ rendered # Null
    /\ Len(rdiffs) = 4
    /\ rdiffs[1].op = DIFF_INSERT /\ rdiffs[2].op = DIFF_EQUAL
    /\ rdiffs[3].op = DIFF_DELETE /\ rdiffs[4].op = DIFF_INSERT
    /\ rendered.changeCount = 3
    /\ {rendered.rightHtml[s].index : s \in indexedSpans(rendered.rightHtml)} = {0, 2}
    /\ {rendered.leftHtml[s].index : s \in indexedSpans(rendered.leftHtml)} = {1}

\* C5 (Truncation boundary), as the specification states it: an edit
\* sequence of exactly maxChunks + 1 operations with alternating tags is
\* rendered with truncated = true and with fewer changes than it has.
C5_TruncationBoundary ==
    (/\ rendered # Null
     /\ Has(ropts, "maxChunks")
     /\ Len(rdiffs) = ropts.maxChunks + 1
     /\ alternatingTags(rdiffs))
        => /\ rendered.truncated
           /\ rendered.changeCount < Cardinality(changePositions(rdiffs))

-----------------------------------------------------------------------------
(* Properties of the viewer component. *)

\* A navigation handler touches nothing but the cursor.
navigationStep ==
    UNCHANGED <<mounted, leftText, rightText, diffResult, isComputing,
                showPerfMetrics, showSizeWarning, pending, viewerDT>>

\* C6 (Cursor clamping): with the change count fixed, 'next' adds exactly 1
\* to the cursor when cursor < changeCount - 1 and else leaves it, 'previous'
\* subtracts exactly 1 when cursor > 0 and else leaves it; no wrapping.
C6_CursorClamping ==
    [][/\ (navigationStep /\ GoToNextDiff) =>
            /\ renderedDiffOf(diffResult', currentDiffIndex').changeCount = diffChunkCount
            /\ currentDiffIndex' = IF currentDiffIndex < diffChunkCount - 1
                                   THEN currentDiffIndex + 1 ELSE currentDiffIndex
       /\ (navigationStep /\ GoToPreviousDiff) =>
            /\ renderedDiffOf(diffResult', currentDiffIndex').changeCount = diffChunkCount
            /\ currentDiffIndex' = IF currentDiffIndex > 0
                                   THEN currentDiffIndex - 1 ELSE currentDiffIndex]_vars

\* Three changes shown and the cursor on the last of them.
C6_Witness ==
    /\ ~isComputing
    /\ diffChunkCount = 3
    /\ currentDiffIndex = 2

\* C7 (Cursor range invariant), read in the specification's favour: whenever
\* the rendered view has changes the cursor is in [0, changeCount), and with
\* no changes it is 0.  (Read to the letter the range is empty when
\* changeCount is 0, as it is before the first comparison.)
C7_CursorInRange ==
    /\ currentDiffIndex >= 0
    /\ diffChunkCount > 0 => currentDiffIndex < diffChunkCount
    /\ diffChunkCount = 0 => currentDiffIndex = 0

-----------------------------------------------------------------------------
(* Properties of the engine's time budget. *)

\* The budget a call was configured with: options.maxComputationTimeMs, and
\* 5000 when the caller gave none.
configuredBudget(options) ==
    IF "maxComputationTimeMs" \in DOMAIN options THEN options.maxComputationTimeMs
    ELSE DEFAULT_TIMEOUT

\* C11 (Near-timeout flag): for non-identical inputs hitTimeout is true
\* exactly when the returned computationTimeMs is at least 95% of the
\* configured budget, whether or not the library broke off.
C11_NearTimeoutFlag ==
    (pc = "returned" /\ args.text1 # args.text2) =>
        (result.hitTimeout <=>
            100 * result.computationTimeMs >= 95 * configuredBudget(args.options))

\* A call that took exactly 95% of its budget of 100 ms, the library not
\* having broken off, is flagged.
C11_Witness ==
    /\ pc = "returned"
    /\ args.text1 # args.text2
    /\ configuredBudget(args.options) = 100
    /\ result.computationTimeMs = 95
    /\ ~brokeOff
    /\ result.hitTimeout

\* C12 (Timeout is reported), as the specification states it: a result that
\* the library broke off at its deadline is returned with hitTimeout = true.
C12_TimeoutReported ==
    (pc = "returned" /\ brokeOff) => result.hitTimeout

\* C13 (Option clamping), as the specification states it: a zero or negative
\* maxComputationTimeMs acts as some positive minimum budget.  Whatever that
\* minimum is, a call measured to take 0 ms is below 95% of it, so it is not
\* flagged as timed out.
C13_OptionClamping ==
    (/\ pc = "returned"
     /\ args.text1 # args.text2
     /\ configuredBudget(args.options) <= 0
     /\ result.computationTimeMs = 0)
        => ~result.hitTimeout

-----------------------------------------------------------------------------
(* Properties of the module as a whole. *)

isDiffResult(r) ==
    /\ DOMAIN r = {"diffs", "hitTimeout", "computationTimeMs", "algorithm", "stats"}
    /\ \A i \in 1..Len(r.diffs) :
           /\ DOMAIN r.diffs[i] = {"op", "text"}
           /\ r.diffs[i].op \in {DIFF_DELETE, DIFF_INSERT, DIFF_EQUAL}
    /\ r.hitTimeout \in BOOLEAN
    /\ r.computationTimeMs \in Nat
    /\ r.algorithm \in {"fast", "accurate", "line-based"}
    /\ DOMAIN r.stats = {"totalSize", "changeCount", "insertions", "deletions"}
    /\ \A f \in DOMAIN r.stats : r.stats[f] \in Nat

isRenderedDiff(v) ==
    /\ DOMAIN v = {"leftHtml", "rightHtml", "changeCount", "truncated"}
    /\ v.changeCount \in Nat
    /\ v.truncated \in BOOLEAN
    /\ v.truncated <=>
           (\E s \in 1..Len(v.leftHtml) : v.leftHtml[s].marking = "truncated")

\* C14 (Totality): whatever the texts and the options, a computeDiff call
\* that has returned has returned a DiffResult, never an error, a timeout
\* being a DiffResult with hitTimeout = true; whatever the edit sequence and
\* the options, renderDiffToHtml has returned a view, truncation being told
\* by its truncated flag.
C14_Totality ==
    /\ pc = "returned" => isDiffResult(result)
    /\ rendered # Null => isRenderedDiff(rendered)

\* An empty text against one with a line separator, the library having
\* broken off at its deadline: an ordinary result with hitTimeout = true.
C14_Witness ==
    /\ pc = "returned"
    /\ args.text1 = <<>>
    /\ NL \in {args.text2[i] : i \in 1..Len(args.text2)}
    /\ result.hitTimeout
    /\ isDiffResult(result)

-----------------------------------------------------------------------------
(* Properties of particular inputs. *)

\* C15 (Pure insertion or deletion against the empty text): the empty text
\* against a non-empty b gives exactly one operation, Insert(b), with
\* deletions = 0, insertions = |b| and changeCount = 1; a non-empty a against
\* the empty text gives exactly Delete(a), with insertions = 0 and
\* deletions = |a|.
C15_AgainstEmpty ==
    pc = "returned" =>
        /\ (args.text1 = <<>> /\ args.text2 # <<>>) =>
              /\ result.diffs = <<[op |-> DIFF_INSERT, text |-> args.text2]>>
              /\ result.stats.deletions = 0
              /\ result.stats.insertions = Len(args.text2)
              /\ result.stats.changeCount = 1
        /\ (args.text1 # <<>> /\ args.text2 = <<>>) =>
              /\ result.diffs = <<[op |-> DIFF_DELETE, text |-> args.text1]>>
              /\ result.stats.insertions = 0
              /\ result.stats.deletions = Len(args.text1)
              /\ result.stats.changeCount = 1

\* The empty text against three characters, a line separator among them, in
\* line mode.
C15_Witness ==
    /\ pc = "returned"
    /\ args.text1 = <<>>
    /\ Len(args.text2) = 3
    /\ args.text2[2] = NL
    /\ result.algorithm = "line-based"
    /\ result.diffs = <<[op |-> DIFF_INSERT, text |-> args.text2]>>

\* The lines that, put into a at a line boundary, give b.
insertedLines(a, b) ==
    LET n == Len(b) - Len(a)
    IN  IF n < 1 THEN {}
        ELSE {SubSeq(b, k + 1, k + n) :
                 k \in {j \in 0..Len(a) :
                          /\ j = 0 \/ a[j] = NL
                          /\ b = SubSeq(a, 1, j) \o SubSeq(b, j + 1, j + n)
                                     \o SubSeq(a, j + 1, Len(a))
                          /\ b[j + n] = NL
                          /\ \A i \in (j + 1)..(j + n - 1) : b[i] # NL}}

\* C16 (Single inserted line), as the specification states it, for a call
\* with default options that took no time: when b is a multi-line a with one
\* whole line put in at a line boundary, the tag is 'line-based' and the only
\* non-Equal operation is an Insert whose text is the new line.
C16_SingleInsertedLine ==
    (/\ pc = "returned"
     /\ args.options = <<>>
     /\ result.computationTimeMs = 0
     /\ \E i \in 1..Len(args.text1) : args.text1[i] = NL
     /\ insertedLines(args.text1, args.text2) # {})
        => /\ result.algorithm = "line-based"
           /\ \E i \in 1..Len(result.diffs) :
                  /\ result.diffs[i].op = DIFF_INSERT
                  /\ result.diffs[i].text \in insertedLines(args.text1, args.text2)
                  /\ \A j \in 1..Len(result.diffs) :
                         j # i => result.diffs[j].op = DIFF_EQUAL

-----------------------------------------------------------------------------
(* Further properties of the renderer. *)

withoutRing(html) == [s \in 1..Len(html) |-> [html[s] EXCEPT !.ring = FALSE]]
ringed(html) == {s \in 1..Len(html) : html[s].ring}

\* C17 (Highlight is emphasis only): the view rendered with a highlightIndex
\* and the view rendered from the same edit sequence and maxChunks without
\* one have the same changeCount, truncated flag, texts and region indices;
\* a region carries the highlight marker exactly when its index is
\* highlightIndex, so at most one does, and none does by default.
C17_HighlightOnly ==
    rendered # Null =>
        LET h == IF "highlightIndex" \in DOMAIN ropts THEN ropts.highlightIndex ELSE -1
            plain == renderDiffToHtml(rdiffs,
                         [f \in DOMAIN ropts \ {"highlightIndex"} |-> ropts[f]])
            left == rendered.leftHtml
            right == rendered.rightHtml
        IN  /\ rendered.changeCount = plain.changeCount
            /\ rendered.truncated = plain.truncated
            /\ withoutRing(left) = withoutRing(plain.leftHtml)
            /\ withoutRing(right) = withoutRing(plain.rightHtml)
            /\ ringed(plain.leftHtml) = {} /\ ringed(plain.rightHtml) = {}
            /\ \A s \in 1..Len(left) :
                   left[s].ring <=> (left[s].marking = "delete" /\ left[s].index = h)
            /\ \A s \in 1..Len(right) :
                   right[s].ring <=> (right[s].marking = "insert" /\ right[s].index = h)
            /\ Cardinality(ringed(left)) + Cardinality(ringed(right)) <= 1

\* Region 1 of three is highlighted, next to unchanged text.
C17_Witness ==
    /\ rendered # Null
    /\ "highlightIndex" \in DOMAIN ropts
    /\ ropts.highlightIndex = 1
    /\ rendered.changeCount = 3
    /\ \E i \in 1..Len(rdiffs) : rdiffs[i].op = DIFF_EQUAL
    /\ Cardinality(ringed(rendered.leftHtml)) + Cardinality(ringed(rendered.rightHtml)) = 1

\* The spans a side shows for the operations ops, in sequence order.
spansOf(ops) ==
    [s \in 1..Len(ops) |->
        [marking |-> IF ops[s].op = DIFF_DELETE THEN "delete"
                     ELSE IF ops[s].op = DIFF_INSERT THEN "insert" ELSE "equal",
         html |-> escapeHtml(ops[s].text)]]
shownOf(html) == [s \in 1..Len(html) |-> [marking |-> html[s].marking, html |-> html[s].html]]
notInsert(d) == d.op # DIFF_INSERT
notDelete(d) == d.op # DIFF_DELETE

\* C18 (Side assignment in render): a view rendered without truncation
\* shows on the left, in sequence order, exactly the Equal and Delete
\* operations' escaped texts, Delete marked deleted, and on the right exactly
\* the Equal and Insert operations' escaped texts, Insert marked inserted.
C18_SideAssignment ==
    (rendered # Null /\ ~rendered.truncated) =>
        /\ shownOf(rendered.leftHtml) = spansOf(SelectSeq(rdiffs, notInsert))
        /\ shownOf(rendered.rightHtml) = spansOf(SelectSeq(rdiffs, notDelete))

\* Delete, Equal, Insert rendered whole: two spans on each side.
C18_Witness ==
    /\ rendered # Null
    /\ ~rendered.truncated
    /\ Len(rdiffs) = 3
    /\ rdiffs[1].op = DIFF_DELETE /\ rdiffs[2].op = DIFF_EQUAL /\ rdiffs[3].op = DIFF_INSERT
    /\ Len(rendered.leftHtml) = 2 /\ rendered.leftHtml[1].marking = "delete"
    /\ Len(rendered.rightHtml) = 2 /\ rendered.rightHtml[2].marking = "insert"

\* What one character of a span text has to become.
escapedChar(c) ==
    CASE c = "&" -> <<"&", "a", "m", "p", ";">>
      [] c = "<" -> <<"&", "l", "t", ";">>
      [] c = ">" -> <<"&", "g", "t", ";">>
      [] c = NL -> <<"<", "b", "r", ">">>
      [] OTHER -> <<c>>

\* Whether the characters of html from position p on start with word.
startsAt(html, p, word) ==
    /\ p >= 1
    /\ p + Len(word) - 1 <= Len(html)
    /\ \A i \in 1..Len(word) : html[p + i - 1] = word[i]

\* The escaped texts of the spans of a view.
embeddedTexts(v) ==
    {v.leftHtml[s].html : s \in 1..Len(v.leftHtml)}
        \cup {v.rightHtml[s].html : s \in 1..Len(v.rightHtml)}

\* C19 (Text escaping): the text embedded for a span is its text with every
\* '&', '<', '>' turned into '&amp;', '&lt;', '&gt;' and every line break
\* into '<br>', each character escaped once; so it holds no line break, no
\* '&' that does not start one of these entities, and no '<' or '>' outside
\* a '<br>'; and no other span text gives the same embedded text.
C19_Escaping ==
    rendered # Null =>
        \A html \in embeddedTexts(rendered) :
            LET text == rdiffs[1].text
            IN  /\ html = Flatten([i \in 1..Len(text) |-> escapedChar(text[i])])
                /\ \A p \in 1..Len(html) :
                       /\ html[p] # NL
                       /\ html[p] = "&" =>
                              \/ startsAt(html, p, <<"&", "a", "m", "p", ";">>)
                              \/ startsAt(html, p, <<"&", "l", "t", ";">>)
                              \/ startsAt(html, p, <<"&", "g", "t", ";">>)
                       /\ html[p] = "<" => startsAt(html, p, <<"<", "b", "r", ">">>)
                       /\ html[p] = ">" => startsAt(html, p - 3, <<"<", "b", "r", ">">>)
                /\ \A other \in EscapeTexts : other # text => escapeHtml(other) # html

\* The text '&amp;' is embedded as '&amp;amp;', escaped once more and no
\* further.
C19_Witness ==
    /\ rendered # Null
    /\ rdiffs[1].text = <<"&", "a", "m", "p", ";">>
    /\ embeddedTexts(rendered) = {<<"&", "a", "m", "p", ";", "a", "m", "p", ";">>}

-----------------------------------------------------------------------------
(* Properties of the stored diffs. *)

\* The GET requests that have been answered.
answered == {r \in 1..MaxRequests : requests[r].pc = "done"}

\* C20 (Retrieval gate for stored diffs): a GET by short id, on any of the
\* three routes and however create and cleanup interleave with it, answers
\* 404 when no document has that id, else 410 when the document's expiresAt
\* is earlier than the time of the request, else 403 when the document is
\* private and the request's token is missing or is not the stored access
\* token, each of these without any text; and else answers with the
\* document's textA and textB.
C20_RetrievalGate ==
    \A r \in answered :
        LET q == requests[r]
            document == q.document
            exists == document # NoDocument
            expired == document.expiresAt # Null /\ document.expiresAt.time < q.checkedAt
            allowed == document.isPrivate => q.token = document.accessToken
        IN  /\ exists => (q.id \in drawnIds /\ document.shortId = q.id)
            /\ q.response.status =
                   IF ~exists THEN HTTP_NOT_FOUND
                   ELSE IF expired THEN HTTP_GONE
                   ELSE IF ~allowed THEN HTTP_FORBIDDEN
                   ELSE HTTP_OK
            /\ IF q.response.status = HTTP_OK
               THEN /\ q.response.body.textA = document.textA
                    /\ q.response.body.textB = document.textB
               ELSE q.response.body = Null

\* A private diff is answered to the holder of its token while a cleanup
\* that ran during the request has already deleted it.
C20_Witness ==
    \E r \in answered :
        /\ requests[r].response.status = HTTP_OK
        /\ requests[r].document.isPrivate
        /\ requests[r].token = requests[r].document.accessToken
        /\ diffDocuments[requests[r].id] = NoDocument

\* The short ids whose document a cleanup has removed.
removedIds == {id \in drawnIds : diffDocuments[id] = NoDocument}

\* C21 (Cleanup of expired diffs): a cleanup call deletes the documents
\* whose expiresAt is earlier than the time of the call and no other,
\* leaves the remaining documents as they are, and reports the number it
\* deleted; a GET that selects a removed id afterwards finds no document
\* and answers 404.
C21_Cleanup ==
    [][/\ Cleanup =>
            /\ \A id \in ShortIds :
                   diffDocuments'[id] =
                       IF /\ diffDocuments[id] # NoDocument
                          /\ diffDocuments[id].expiresAt # Null
                          /\ diffDocuments[id].expiresAt.time < now
                       THEN NoDocument
                       ELSE diffDocuments[id]
            /\ lastReply' =
                   [status |-> HTTP_OK,
                    deleted |-> Cardinality({id \in ShortIds :
                                    /\ diffDocuments[id] # NoDocument
                                    /\ diffDocuments'[id] = NoDocument})]
       /\ \A r \in 1..MaxRequests :
            /\ (/\ requests[r].pc = "new"
                /\ requests'[r].pc = "selected"
                /\ requests'[r].id \in removedIds)
                   => requests'[r].document = NoDocument
            /\ (/\ requests[r].pc = "selected"
                /\ requests[r].document = NoDocument
                /\ requests'[r].pc # "selected")
                   => requests'[r].response = [status |-> HTTP_NOT_FOUND, body |-> Null]
      ]_vars

\* A cleanup has deleted one of two documents and kept the other, and a GET
\* of the deleted one has been answered 404.
C21_Witness ==
    /\ diffDocuments["d1"] = NoDocument
    /\ diffDocuments["d2"] # NoDocument
    /\ "d1" \in drawnIds
    /\ lastReply = [status |-> HTTP_OK, deleted |-> 1]
    /\ \E r \in answered :
         requests[r].id = "d1" /\ requests[r].response.status = HTTP_NOT_FOUND

\* Whether a text of a create body is missing, empty, not a string or
\* longer than 5MB.
illFormedText(body, name) ==
    IF name \notin DOMAIN body THEN TRUE
    ELSE IF body[name].type # "string" THEN TRUE
    ELSE body[name].length = 0 \/ body[name].length > CREATE_MAX_SIZE

\* What the request of a server with a body has to be answered with.
createdAsRequired(route, body) ==
    IF illFormedText(body, "textA") \/ illFormedText(body, "textB")
    THEN /\ lastReply'.status = HTTP_BAD_REQUEST
         /\ diffDocuments' = diffDocuments
    ELSE \E id \in ShortIds :
            /\ diffDocuments[id] = NoDocument
            /\ diffDocuments'[id] # NoDocument
            /\ \A other \in ShortIds \ {id} : diffDocuments'[other] = diffDocuments[other]
            /\ diffDocuments'[id].textA = body.textA.chars
            /\ diffDocuments'[id].textB = body.textB.chars
            /\ diffDocuments'[id].viewCount = 0
            /\ diffDocuments'[id].expiresAt =
                   Date(now + (IF "ttlDays" \in DOMAIN body
                               THEN body.ttlDays ELSE DEFAULT_TTL_DAYS))
            /\ diffDocuments'[id].isPrivate = ("isPrivate" \in DOMAIN body /\ body.isPrivate)
            /\ (diffDocuments'[id].accessToken # Null) = diffDocuments'[id].isPrivate
            /\ lastReply'.status = HTTP_OK
            /\ (lastReply'.url.token # Null) = diffDocuments'[id].isPrivate

\* C22 (Create validation): a create request whose textA or textB is
\* missing, empty, not a string or longer than 5MB is answered 400 and
\* leaves the store as it is; every other request adds exactly one document
\* with the given texts, viewCount 0, expiresAt the creation time plus
\* ttlDays (7 by default) and an access token exactly when isPrivate is set,
\* and the URL it returns carries the token exactly when the diff is private.
C22_CreateValidation ==
    [][\A route \in ApiRoutes, body \in AnyBodies :
          CreateRequest(route, body, ShortIds) => createdAsRequired(route, body)]_vars

\* The successful retrievals of a document.
retrievals(id) ==
    {r \in answered : requests[r].id = id /\ requests[r].response.status = HTTP_OK}

\* C23 (View counting): a successful retrieval adds exactly 1 to the stored
\* viewCount of its document and a rejected one (404, 410, 403) leaves it as
\* it is, so that the stored viewCount of a document is the number of its
\* successful retrievals since it was created, however the GET requests
\* interleave.
C23_ViewCounting ==
    \A id \in ShortIds :
        diffDocuments[id] # NoDocument =>
            diffDocuments[id].viewCount = Cardinality(retrievals(id))

\* One retrieval of a private document has succeeded, another has been
\* rejected for its token, and the stored count is 1.
C23_Witness ==
    \E id \in ShortIds :
        /\ diffDocuments[id] # NoDocument
        /\ diffDocuments[id].viewCount = 1
        /\ Cardinality(retrievals(id)) = 1
        /\ \E r \in answered :
             requests[r].id = id /\ requests[r].response.status = HTTP_FORBIDDEN

\* C29 (Returned view count under concurrency): the viewCount that a
\* successful GET returns is the stored viewCount of the document right
\* after the request's own increment, however concurrent GET requests for
\* the same id interleave, and no two successful retrievals of one document
\* report the same viewCount.
C29_ReturnedViewCount ==
    /\ [](\A id \in ShortIds : \A r1 \in retrievals(id), r2 \in retrievals(id) :
            r1 # r2 => requests[r1].response.body.viewCount
                           # requests[r2].response.body.viewCount)
    /\ [][\A r \in 1..MaxRequests :
            (/\ requests[r].pc = "updating"
             /\ requests'[r].pc = "done"
             /\ selectByShortId(diffDocuments', requests[r].id) # NoDocument)
                => requests'[r].response.body.viewCount
                       = diffDocuments'[requests[r].id].viewCount]_vars

-----------------------------------------------------------------------------
(* Further properties of the engine. *)

\* C24 (No state carried between calls): the time budget that limits the
\* core diff of a call is the call's own maxComputationTimeMs (5000 by
\* default), in character mode and in line mode alike, and never the budget
\* that an earlier call left in the instance or the library's default.  The
\* budget in force during a call that has returned is the instance's
\* Diff_Timeout: the character path sets it before it calls the library,
\* and nothing else writes it.
C24_OwnBudget ==
    (pc = "returned" /\ args.text1 # args.text2) =>
        Diff_Timeout = timeoutOf(args.options)

\* C26 (No empty spans): every operation of an edit sequence that
\* computeDiff returns has a non-empty text, for all pairs of inputs, the
\* pair of two empty texts among them.
C26_NoEmptySpans ==
    pc = "returned" =>
        \A i \in 1..Len(result.diffs) : result.diffs[i].text # <<>>

-----------------------------------------------------------------------------
(* Further properties of the viewer component. *)

\* C30 (Computing flag tracks pending comparisons): isComputing is true
\* exactly while at least one comparison has been started and has not yet
\* installed its result, however the triggers of comparisons (Compare
\* button, file loaded, URL parameters on mount) interleave.
C30_ComputingFlag ==
    isComputing = (pending # <<>>)

-----------------------------------------------------------------------------
(* Properties of optimizeDiffs and getChangeIndices. *)

\* C25 (Noise reduction preserves reconstruction): the sequence that
\* optimizeDiffs returns reconstructs the same two texts as its argument:
\* its Equal and Delete texts concatenate to the same first text, its Equal
\* and Insert texts to the same second text.
C25_OptimizePreservesTexts ==
    optimized # Null =>
        /\ textOfOps(optimized.diffs, {DIFF_EQUAL, DIFF_DELETE})
               = textOfOps(odiffs, {DIFF_EQUAL, DIFF_DELETE})
        /\ textOfOps(optimized.diffs, {DIFF_EQUAL, DIFF_INSERT})
               = textOfOps(odiffs, {DIFF_EQUAL, DIFF_INSERT})

\* The operations of an edit sequence that are not Equal, in their order.
changesOf(diffs) == SelectSeq(diffs, LAMBDA d : d.op # DIFF_EQUAL)

\* C27 (optimizeDiffs keeps the coalescing invariant): given an edit
\* sequence in which no two adjacent operations share a tag, optimizeDiffs
\* returns one in which no two adjacent operations share a tag; and it
\* never changes, reorders or removes a Delete or an Insert.
C27_OptimizeKeepsCoalescing ==
    optimized # Null =>
        /\ alternatingTags(odiffs) => alternatingTags(optimized.diffs)
        /\ changesOf(optimized.diffs) = changesOf(odiffs)

\* The span of a view that carries the region index k, as the pair of its
\* marking and its text.
regionOf(view, k) ==
    {<<view.leftHtml[s].marking, view.leftHtml[s].html>> :
        s \in {t \in 1..Len(view.leftHtml) : view.leftHtml[t].index = k}}
    \cup {<<view.rightHtml[s].marking, view.rightHtml[s].html>> :
        s \in {t \in 1..Len(view.rightHtml) : view.rightHtml[t].index = k}}

\* The marking that the renderer gives to an operation.
markingOf(op) == IF op = DIFF_DELETE THEN "delete" ELSE "insert"

\* C28 (Agreement of the three change counts): getChangeIndices returns, in
\* strictly increasing order, exactly the positions (from 0) of the
\* operations that are not Equal; for a result of computeDiff rendered
\* without truncation, the view's changeCount, stats.changeCount and the
\* length of that array are equal, and the region with index k is the
\* operation at position getChangeIndices(diffs)[k]; for a truncated view
\* the changeCount is at most stats.changeCount.
C28_ChangeCountsAgree ==
    (pc = "returned" /\ rendered # Null /\ changeIndices # Null) =>
        LET diffs == result.diffs
            indices == changeIndices.indices
        IN  /\ \A k \in 1..(Len(indices) - 1) : indices[k] < indices[k + 1]
            /\ {indices[k] + 1 : k \in 1..Len(indices)}
                   = {i \in 1..Len(diffs) : diffs[i].op # DIFF_EQUAL}
            /\ Len(indices) = result.stats.changeCount
            /\ IF rendered.truncated
               THEN rendered.changeCount <= result.stats.changeCount
               ELSE /\ rendered.changeCount = result.stats.changeCount
                    /\ \A k \in 1..Len(indices) :
                           regionOf(rendered, k - 1)
                               = {<<markingOf(diffs[indices[k] + 1].op),
                                    escapeHtml(diffs[indices[k] + 1].text)>>}

\* A result with two changes, rendered in full and with its change indices.
C28_Witness ==
    /\ pc = "returned"
    /\ rendered # Null
    /\ changeIndices # Null
    /\ ~rendered.truncated
    /\ rendered.changeCount = 2
    /\ Len(result.diffs) > 2

=============================================================================
